---- MODULE Spec2Model ----
(***************************************************************************)
(* Model of the WHO-CSV extraction, generation and verification scripts.   *)
(*                                                                         *)
(* Text is modelled character by character: a Python str is a sequence of  *)
(* one-character strings, so that substring tests, escaping, formatting    *)
(* and regular-expression matching are computed the way the scripts        *)
(* compute them.  An accented letter is one character, written as the      *)
(* letter and its mark: o-circumflex is "o^".                              *)
(* A Python dict is an association list (a sequence of [k, v] records) in  *)
(* insertion order.  A Python float is [fin, v]: a finite value counts     *)
(* units of 10^-PREC, a non-finite one has fin = FALSE and v = 0 for nan,  *)
(* 1 for inf and -1 for -inf.                                              *)
(***************************************************************************)
EXTENDS Integers, Sequences, FiniteSets, TLC

VARIABLES
    pc,                   \* position of the run
    rows,                 \* the CSV rows the reader has yielded so far
    country_data,         \* fix_disaggregation_extraction / system_wide_verification: code -> indicator -> entry
    indicator_candidates, \* verify_south_africa_data: indicator -> entry
    all_countries,        \* extract_all_countries_csv / fix_and_expand_countries: code -> [name, indicators]
    sanitized_countries,  \* sanitize_all_countries_csv: code -> [name, indicators]
    final_data,           \* return value of extract_correct_aggregates
    csv_data,             \* return value of extract_all_csv_data
    escaped_result,       \* return value of extract_all_countries_with_escaping
    sanitized_result,     \* return value of extract_all_sanitized_countries
    raw_text,             \* the text argument of escape_js_string
    escaped,              \* return value of escape_js_string
    replacement_code,     \* return value of generate_corrected_replacement
    content,              \* client/src/components/world-health-map-simple.tsx
    impl_data,            \* return value of extract_all_implementation_data
    results,              \* what perform_system_wide_verification returns and reports
    replacement_file,     \* the replacement text file a mass replacement reads, if there is one
    printed,              \* the last line a splice script printed
    sanitized_name,       \* return value of sanitize_country_name
    safe_countries,       \* return value of extract_safe_countries_data
    additional_countries, \* generate_safe_expansion: code -> [name, indicators]
    authentic_data,       \* return value of extract_authentic_csv_data: code -> indicator -> value
    complete_country_data,\* extract_complete_csv_data: code -> [name, indicators]
    csv_available,        \* extract_complete_csv_data: code -> set of indicators
    csv_missing,          \* extract_complete_csv_data: code -> set of indicators
    countries_data,       \* the argument of simulate_health_score_calculation: code -> [name, indicators]
    country_scores        \* what simulate_health_score_calculation returns

textVars == <<raw_text, escaped, replacement_code, content, impl_data, results>>

moreVars == <<replacement_file, printed, sanitized_name, safe_countries, additional_countries,
              authentic_data, complete_country_data, csv_available, csv_missing,
              countries_data, country_scores>>

-----------------------------------------------------------------------------
(* Bounds of the model *)

\* decimal digits a float keeps after the point
PREC == 5
\* rows read by one run of the disaggregation fold
MaxRows == 3
\* distinct indicators one country has in a run of the threshold filter
MaxIndicators == 16
\* rows of a threshold run that may be anything but a fresh indicator
MaxOddRows == 2

-----------------------------------------------------------------------------
(* Characters and text *)

UpperSeq == <<"A","B","C","D","E","F","G","H","I","J","K","L","M","N","O","P","Q","R","S","T","U","V","W","X","Y","Z">>
LowerSeq == <<"a","b","c","d","e","f","g","h","i","j","k","l","m","n","o","p","q","r","s","t","u","v","w","x","y","z">>
DigitSeq == <<"0","1","2","3","4","5","6","7","8","9">>

SeqRange(s) == {s[i] : i \in 1..Len(s)}
Upper == SeqRange(UpperSeq)
Lower == SeqRange(LowerSeq)
Accented == {"o^", "e'", "i'", "o'", "u'", "n~", "c,", "a`", "e`", "i`", "o`", "u`",
             "a'", "y'", "a-", "e-", "i-", "o-", "u-", "a(", "e(", "i(", "o(", "u("}

\* str.isalpha() on one character
IsAlphaChar(c) == c \in Upper \cup Lower \cup Accented
\* str.isalpha(): non-empty and every character alphabetic
isalpha(s) == Len(s) > 0 /\ \A i \in 1..Len(s) : IsAlphaChar(s[i])

IsDigit(c) == c \in SeqRange(DigitSeq)
DigitVal(c) == (CHOOSE i \in 1..Len(DigitSeq) : DigitSeq[i] = c) - 1
\* \s of the re module, and the white space str.strip() and float() remove
IsSpace(c) == c \in {" ", "\t", "\n", "\r"}

\* str.lower() on one character
LowerChar(c) == IF c \in Upper THEN LowerSeq[CHOOSE i \in 1..Len(UpperSeq) : UpperSeq[i] = c] ELSE c
lower(s) == [i \in 1..Len(s) |-> LowerChar(s[i])]

\* the only element of a one-element set
the(S) == CHOOSE x \in S : TRUE

SetMin(S) == CHOOSE x \in S : \A y \in S : x <= y
SetMax(S) == CHOOSE x \in S : \A y \in S : x >= y

RECURSIVE for_each(_, _, _, _)
\* `for i in range(lo, hi + 1): acc = body(acc, i)`, the value of acc after the
\* loop; the first half of the range is run before the second, so evaluation
\* nests to the logarithm of the range's length
for_each(body(_, _), acc, lo, hi) ==
    IF lo > hi THEN acc
    ELSE IF lo = hi THEN body(acc, lo)
    ELSE the({for_each(body, half, (lo + hi) \div 2 + 1, hi)
                 : half \in {for_each(body, acc, lo, (lo + hi) \div 2)}})

\* str.strip()
strip(s) ==
    LET keep == {i \in 1..Len(s) : ~IsSpace(s[i])}
    IN  IF keep = {} THEN <<>> ELSE SubSeq(s, SetMin(keep), SetMax(keep))

\* lit occurs in text at index pos (1-based)
MatchesAt(text, lit, pos) ==
    /\ pos >= 1
    /\ pos + Len(lit) - 1 <= Len(text)
    /\ \A j \in 1..Len(lit) : text[pos + j - 1] = lit[j]

\* Python's `p in s` on strings
Contains(s, p) == \E pos \in 1..(Len(s) - Len(p) + 1) : MatchesAt(s, p, pos)

RECURSIVE Pow10(_)
Pow10(n) == IF n = 0 THEN 1 ELSE 10 * Pow10(n - 1)
Scale == Pow10(PREC)

-----------------------------------------------------------------------------
(* str.find, str.replace and the regular expressions of the re module *)

\* the first index >= from at which lit occurs in s, 0 if there is none
Find(s, lit, from) ==
    LET hits == {p \in from..(Len(s) - Len(lit) + 1) : MatchesAt(s, lit, p)}
    IN  IF hits = {} THEN 0 ELSE SetMin(hits)

RECURSIVE replace_from(_, _, _, _)
replace_from(s, old, new, from) ==
    LET p == Find(s, old, from)
    IN  IF p = 0 THEN SubSeq(s, from, Len(s))
        ELSE SubSeq(s, from, p - 1) \o new \o replace_from(s, old, new, p + Len(old))

\* s.replace(old, new) for a non-empty old: every occurrence, left to right
str_replace(s, old, new) == replace_from(s, old, new, 1)

\* A regular expression is a sequence of instructions.  Every repetition in
\* the patterns of the scripts is followed by a character it cannot itself
\* consume, so greedy matching never backtracks.
Lit(s)        == [op |-> "lit",   s |-> s,    set |-> {}, neg |-> FALSE, n |-> 0]
Many(S)       == [op |-> "many",  s |-> <<>>, set |-> S,  neg |-> FALSE, n |-> 0]
Some(S)       == [op |-> "many",  s |-> <<>>, set |-> S,  neg |-> FALSE, n |-> 1]
ManyNot(S)    == [op |-> "many",  s |-> <<>>, set |-> S,  neg |-> TRUE,  n |-> 0]
SomeNot(S)    == [op |-> "many",  s |-> <<>>, set |-> S,  neg |-> TRUE,  n |-> 1]
Times(S, k)   == [op |-> "times", s |-> <<>>, set |-> S,  neg |-> FALSE, n |-> k]
LazyUntil(s)  == [op |-> "lazy",  s |-> s,    set |-> {}, neg |-> FALSE, n |-> 0]
Open          == [op |-> "open",  s |-> <<>>, set |-> {}, neg |-> FALSE, n |-> 0]
Close         == [op |-> "close", s |-> <<>>, set |-> {}, neg |-> FALSE, n |-> 0]

Space == {" ", "\t", "\n", "\r"}
Digit == SeqRange(DigitSeq)

NoMatch == [ok |-> FALSE, start |-> 0, end |-> 0, groups |-> <<>>]

\* the end of the longest run from pos of characters the instruction accepts
span_end(t, pos, ins) ==
    LET stops == {q \in pos..Len(t) : (t[q] \in ins.set) = ins.neg}
    IN  IF stops = {} THEN Len(t) + 1 ELSE SetMin(stops)

\* the match m, which has consumed t up to m.end, after one more instruction;
\* groups are [s, e) pairs
step(ins, t, m) ==
    CASE ~m.ok -> m
      [] m.ok /\ ins.op = "lit" ->
            IF MatchesAt(t, ins.s, m.end) THEN [m EXCEPT !.end = @ + Len(ins.s)] ELSE NoMatch
      [] m.ok /\ ins.op = "many" ->
            the({IF e - m.end >= ins.n THEN [m EXCEPT !.end = e] ELSE NoMatch
                    : e \in {span_end(t, m.end, ins)}})
      [] m.ok /\ ins.op = "times" ->
            IF /\ m.end + ins.n - 1 <= Len(t)
               /\ \A j \in 0..(ins.n - 1) : t[m.end + j] \in ins.set
            THEN [m EXCEPT !.end = @ + ins.n] ELSE NoMatch
      [] m.ok /\ ins.op = "lazy" ->
            \* (.*?) before the literal s: the literal's first occurrence ends it
            the({IF p # 0 THEN [m EXCEPT !.end = p] ELSE NoMatch
                    : p \in {Find(t, ins.s, m.end)}})
      [] m.ok /\ ins.op = "open" ->
            [m EXCEPT !.groups = Append(@, [s |-> m.end, e |-> m.end])]
      [] m.ok /\ ins.op = "close" ->
            [m EXCEPT !.groups[Len(m.groups)].e = m.end]

\* pattern.match at index pos
match_at(prog, t, pos) ==
    for_each(LAMBDA m, i : step(prog[i], t, m),
             [ok |-> TRUE, start |-> pos, end |-> pos, groups |-> <<>>], 1, Len(prog))

\* match.group(k)
group(t, m, k) == SubSeq(t, m.groups[k].s, m.groups[k].e - 1)
\* match.group(0)
group0(t, m) == SubSeq(t, m.start, m.end - 1)

\* the indices, in order, where the pattern can start: where its leading literal occurs
candidates(prog, t) ==
    SelectSeq([i \in 1..Len(t) |-> i], LAMBDA i : t[i] = prog[1].s[1])

\* re.finditer: the matches left to right, each search resuming where the last
\* match ended
re_finditer(prog, t) ==
    the({for_each(LAMBDA found, k :
                      IF starts[k] < found.end THEN found
                      ELSE the({IF m.ok THEN [ms |-> Append(found.ms, m), end |-> m.end]
                                ELSE found
                                   : m \in {match_at(prog, t, starts[k])}}),
                  [ms |-> <<>>, end |-> 1], 1, Len(starts)).ms
            : starts \in {candidates(prog, t)}})

\* re.search: the leftmost match
re_search(prog, t) ==
    the({IF ms = <<>> THEN NoMatch ELSE ms[1] : ms \in {re_finditer(prog, t)}})

-----------------------------------------------------------------------------
(* dict *)

dict_has(d, k) == \E i \in 1..Len(d) : d[i].k = k
dict_idx(d, k) == CHOOSE i \in 1..Len(d) : d[i].k = k
dict_get(d, k) == d[dict_idx(d, k)].v
\* d[k] = v: an existing key keeps its place, a new key is appended
dict_set(d, k, v) ==
    IF dict_has(d, k) THEN [d EXCEPT ![dict_idx(d, k)] = [k |-> k, v |-> v]]
    ELSE Append(d, [k |-> k, v |-> v])
dict_keys(d) == {d[i].k : i \in 1..Len(d)}

-----------------------------------------------------------------------------
(* float(text) *)

RECURSIVE DigitsVal(_, _)
\* the number written by the first n characters of the digit string s
DigitsVal(s, n) == IF n = 0 THEN 0 ELSE DigitsVal(s, n - 1) * 10 + DigitVal(s[n])
AllDigits(s) == \A i \in 1..Len(s) : IsDigit(s[i])

\* the fraction digits frac in units of 10^-PREC (digits past PREC are cut)
FracUnits(frac) ==
    LET n == IF Len(frac) < PREC THEN Len(frac) ELSE PREC
    IN  DigitsVal(frac, n) * Pow10(PREC - n)

FloatError == [ok |-> FALSE, fin |-> FALSE, v |-> 0]
Finite(u) == [ok |-> TRUE, fin |-> TRUE, v |-> u]
NonFinite(code) == [ok |-> TRUE, fin |-> FALSE, v |-> code]

\* digits [. digits] | . digits, as units
Mantissa(m) ==
    LET dots == {i \in 1..Len(m) : m[i] = "."}
        ip   == IF dots = {} THEN m ELSE SubSeq(m, 1, SetMin(dots) - 1)
        fp   == IF dots = {} THEN <<>> ELSE SubSeq(m, SetMin(dots) + 1, Len(m))
    IN  IF AllDigits(ip) /\ AllDigits(fp) /\ Len(ip) + Len(fp) >= 1
        THEN Finite(DigitsVal(ip, Len(ip)) * Scale + FracUnits(fp))
        ELSE FloatError

\* [+-] digits
Exponent(e) ==
    LET signed == Len(e) > 0 /\ e[1] \in {"+", "-"}
        ds     == IF signed THEN SubSeq(e, 2, Len(e)) ELSE e
    IN  IF Len(ds) > 0 /\ AllDigits(ds)
        THEN [ok |-> TRUE, neg |-> signed /\ e[1] = "-", n |-> DigitsVal(ds, Len(ds))]
        ELSE [ok |-> FALSE, neg |-> FALSE, n |-> 0]

Unsigned(b) ==
    LET es == {i \in 1..Len(b) : b[i] \in {"e", "E"}}
    IN  IF lower(b) = <<"n","a","n">> THEN NonFinite(0)
        ELSE IF lower(b) \in {<<"i","n","f">>, <<"i","n","f","i","n","i","t","y">>} THEN NonFinite(1)
        ELSE IF es = {} THEN Mantissa(b)
        ELSE LET m == Mantissa(SubSeq(b, 1, SetMin(es) - 1))
                 e == Exponent(SubSeq(b, SetMin(es) + 1, Len(b)))
             IN  IF ~m.ok \/ ~e.ok THEN FloatError
                 ELSE IF e.neg THEN Finite(m.v \div Pow10(e.n))
                 ELSE Finite(m.v * Pow10(e.n))

\* float(text): [ok, fin, v]; ok = FALSE is ValueError
float(text) ==
    LET s      == strip(text)
        signed == Len(s) > 0 /\ s[1] \in {"+", "-"}
        neg    == signed /\ s[1] = "-"
        u      == Unsigned(IF signed THEN SubSeq(s, 2, Len(s)) ELSE s)
    IN  IF neg /\ u.ok THEN [u EXCEPT !.v = 0 - u.v] ELSE u

\* the float a successful parse yields
FloatOf(p) == [fin |-> p.fin, v |-> p.v]

-----------------------------------------------------------------------------
(* The CSV fold: one row at a time *)

REGIONAL_AGGREGATES == {
    <<"G","l","o","b","a","l">>,
    <<"A","f","r","i","c","a","n"," ","R","e","g","i","o","n">>,
    <<"E","a","s","t","e","r","n"," ","M","e","d","i","t","e","r","r","a","n","e","a","n"," ","R","e","g","i","o","n">>,
    <<"E","u","r","o","p","e","a","n"," ","R","e","g","i","o","n">>,
    <<"R","e","g","i","o","n"," ","o","f"," ","t","h","e"," ","A","m","e","r","i","c","a","s">>,
    <<"S","o","u","t","h","-","E","a","s","t"," ","A","s","i","a"," ","R","e","g","i","o","n">>,
    <<"W","e","s","t","e","r","n"," ","P","a","c","i","f","i","c"," ","R","e","g","i","o","n">> }

NO_DATA == <<"N","O"," ","D","A","T","A">>

priority_order == <<
    <<"N","A">>,
    <<"B","T","S","X">>,
    <<"S","E","X","_","B","T","S","X">>,
    <<"T","O","T","A","L">>,
    <<"A","L","L">>,
    <<>> >>

\* `priority_pattern in disaggregation or disaggregation == priority_pattern`
pattern_matches(priority_pattern, disaggregation) ==
    Contains(disaggregation, priority_pattern) \/ disaggregation = priority_pattern

\* the index (from 0) of the first pattern that matches, len(priority_order) if none does
priority_score(disaggregation) ==
    LET hits == {i \in 1..Len(priority_order) : pattern_matches(priority_order[i], disaggregation)}
    IN  IF hits = {} THEN Len(priority_order) ELSE SetMin(hits) - 1

\* `location in [...]`: skip regional aggregates
is_regional(location) == location \in REGIONAL_AGGREGATES

any_three_characters(location_code) == Len(location_code) = 3

\* `len(location_code) == 3 and location_code.isalpha()`
valid_code(location_code) == Len(location_code) = 3 /\ isalpha(location_code)

\* `numeric_value and numeric_value.strip() and numeric_value != 'NO DATA'`
has_data(numeric_value) ==
    /\ numeric_value # <<>>
    /\ strip(numeric_value) # <<>>
    /\ numeric_value # NO_DATA

always_stores(priority_score_, stored_priority) == TRUE

is_not_lower_priority(priority_score_, stored_priority) == priority_score_ <= stored_priority
is_lower_priority(priority_score_, stored_priority) == priority_score_ > stored_priority

\* `priority_score < country_data[location_code][indicator]['priority']`
is_higher_priority(priority_score_, stored_priority) == priority_score_ < stored_priority

\* the candidate table of one country after a contributing row
store_candidate(indicators, indicator, entry) ==
    IF ~dict_has(indicators, indicator)
       \/ is_higher_priority(entry.priority, dict_get(indicators, indicator).priority)
    THEN dict_set(indicators, indicator, entry)
    ELSE indicators

\* extract_correct_aggregates / extract_all_csv_data: the body of `for row in reader`
fold_aggregates(cd, row) ==
    IF is_regional(row.Location) THEN cd
    ELSE IF ~valid_code(row.LocationCode) THEN cd
    ELSE IF ~has_data(row.NumericValue) THEN cd
    ELSE LET p == float(row.NumericValue)
         IN  IF ~p.ok THEN cd
             ELSE LET entry == [value          |-> FloatOf(p),
                                priority       |-> priority_score(row.Disaggregation),
                                disaggregation |-> row.Disaggregation,
                                location       |-> row.Location]
                      indicators == IF dict_has(cd, row.LocationCode)
                                    THEN dict_get(cd, row.LocationCode) ELSE <<>>
                  IN  dict_set(cd, row.LocationCode,
                               store_candidate(indicators, row.IndicatorName, entry))

ZAF == <<"Z","A","F">>

\* extract_south_africa_csv_data: the body of `for row in reader`
fold_south_africa(cands, row) ==
    IF row.LocationCode # ZAF THEN cands
    ELSE IF ~has_data(row.NumericValue) THEN cands
    ELSE LET p == float(row.NumericValue)
         IN  IF ~p.ok THEN cands
             ELSE store_candidate(cands, row.IndicatorName,
                                  [value          |-> FloatOf(p),
                                   priority       |-> priority_score(row.Disaggregation),
                                   disaggregation |-> row.Disaggregation])

\* extract_all_countries_csv_data / extract_all_countries_with_escaping /
\* extract_all_sanitized_countries: the body of `for row in reader`, the country
\* named name(location) when its entry is created
fold_plain(cd, row, name) ==
    IF is_regional(row.Location) THEN cd
    ELSE IF ~valid_code(row.LocationCode) THEN cd
    ELSE LET created == IF dict_has(cd, row.LocationCode) THEN cd
                        ELSE dict_set(cd, row.LocationCode, [name |-> name, indicators |-> <<>>])
             country == dict_get(created, row.LocationCode)
         IN  IF ~has_data(row.NumericValue) THEN created
             ELSE LET p == float(row.NumericValue)
                  IN  IF ~p.ok THEN created
                      ELSE dict_set(created, row.LocationCode,
                                    [country EXCEPT !.indicators =
                                        dict_set(@, row.IndicatorName, FloatOf(p))])

-----------------------------------------------------------------------------
(* sanitize_country_name *)

\* the replacements dict, accented letters written as letter plus mark
replacements == <<
    <<"o^","o">>, <<"e'","e">>, <<"i'","i">>, <<"o'","o">>, <<"u'","u">>, <<"n~","n">>,
    <<"c,","c">>, <<"a`","a">>, <<"e`","e">>, <<"i`","i">>, <<"o`","o">>, <<"u`","u">>,
    <<"a'","a">>, <<"y'","y">>, <<"a-","a">>, <<"e-","e">>, <<"i-","i">>, <<"o-","o">>,
    <<"u-","u">>, <<"a(","a">>, <<"e(","e">>, <<"i(","i">>, <<"o(","o">>, <<"u(","u">> >>

\* str.replace(special, replacement) for one-character arguments
replace_char(s, special, replacement) ==
    [i \in 1..Len(s) |-> IF s[i] = special THEN replacement ELSE s[i]]

\* `for special, replacement in replacements.items()`
sanitize_country_name(name) ==
    for_each(LAMBDA sanitized, n : replace_char(sanitized, replacements[n][1], replacements[n][2]),
             name, 1, Len(replacements))

-----------------------------------------------------------------------------
(* The values returned once the reader is exhausted *)

MIN_AGGREGATES == 15
MIN_VERIFIED == 10
MIN_ESCAPED == 15
MIN_SANITIZED == 10

exceeds_threshold(count, threshold) == count > threshold

at_most_threshold(count, threshold) == count <= threshold

\* `len(indicators) >= threshold`
meets_threshold(count, threshold) == count >= threshold

\* final_data of extract_correct_aggregates / extract_all_csv_data
final_values(cd, threshold) ==
    LET kept == SelectSeq(cd, LAMBDA e : meets_threshold(Len(e.v), threshold))
    IN  [i \in 1..Len(kept) |->
            [k |-> kept[i].k,
             v |-> [name       |-> kept[i].v[1].v.location,
                    indicators |-> [j \in 1..Len(kept[i].v) |->
                                       [k |-> kept[i].v[j].k, v |-> kept[i].v[j].v.value]]]]]

\* substantial_countries of the extractors without disaggregation
substantial_countries(cd, threshold) ==
    SelectSeq(cd, LAMBDA e : meets_threshold(Len(e.v.indicators), threshold))

-----------------------------------------------------------------------------
(* One run of the extractors over a CSV *)

Row(location, code, indicator, disaggregation, value) ==
    [Location |-> location, LocationCode |-> code, IndicatorName |-> indicator,
     Disaggregation |-> disaggregation, NumericValue |-> value]

\* every extractor reads the row the reader yields
ReadInto(row) ==
    /\ rows' = Append(rows, row)
    /\ country_data' = fold_aggregates(country_data, row)
    /\ indicator_candidates' = fold_south_africa(indicator_candidates, row)
    /\ all_countries' = fold_plain(all_countries, row, row.Location)
    /\ sanitized_countries' = fold_plain(sanitized_countries, row, sanitize_country_name(row.Location))
    /\ UNCHANGED <<pc, final_data, csv_data, escaped_result, sanitized_result, textVars, moreVars>>

\* the reader is exhausted: each extractor filters and returns
Finish ==
    /\ pc = "reading"
    /\ pc' = "done"
    /\ final_data' = final_values(country_data, MIN_AGGREGATES)
    /\ csv_data' = final_values(country_data, MIN_VERIFIED)
    /\ escaped_result' = substantial_countries(all_countries, MIN_ESCAPED)
    /\ sanitized_result' = substantial_countries(sanitized_countries, MIN_SANITIZED)
    /\ UNCHANGED <<rows, country_data, indicator_candidates, all_countries, sanitized_countries, textVars, moreVars>>

\* no file
NO_FILE == [exists |-> FALSE, text |-> <<>>]

\* no replacement file, nothing printed, nothing returned by the other scripts
NoMore ==
    /\ replacement_file = NO_FILE
    /\ printed = <<>>
    /\ sanitized_name = <<>>
    /\ safe_countries = <<>>
    /\ additional_countries = <<>>
    /\ authentic_data = <<>>
    /\ complete_country_data = <<>>
    /\ csv_available = <<>>
    /\ csv_missing = <<>>
    /\ countries_data = <<>>
    /\ country_scores = <<>>

\* nothing has been escaped, generated, written or parsed
NoText ==
    /\ raw_text = <<>>
    /\ escaped = <<>>
    /\ replacement_code = <<>>
    /\ content = <<>>
    /\ impl_data = <<>>
    /\ results = <<>>

ExtractInit ==
    /\ NoText
    /\ NoMore
    /\ pc = "reading"
    /\ rows = <<>>
    /\ country_data = <<>>
    /\ indicator_candidates = <<>>
    /\ all_countries = <<>>
    /\ sanitized_countries = <<>>
    /\ final_data = <<>>
    /\ csv_data = <<>>
    /\ escaped_result = <<>>
    /\ sanitized_result = <<>>

-----------------------------------------------------------------------------
(* Rows of the disaggregation runs *)

KENYA == <<"K","e","n","y","a">>
KENIA == <<"K","e","n","i","a">>
COTE == <<"C","o^","t","e">>
KEN == <<"K","E","N">>
CIV == <<"C","I","V">>
LIFE == <<"L","i","f","e">>
UHC == <<"U","H","C">>

FoldDisaggregations == {
    <<"N","A">>, <<"B","T","S","X">>, <<"S","E","X","_","B","T","S","X">>,
    <<"S","E","X","_","M","L","E">> }

SEX_MLE == <<"S","E","X","_","M","L","E">>

FoldRows ==
    \* one country, one indicator, every disaggregation; two values where ties are made
    {Row(KENYA, KEN, LIFE, d, <<"1">>) : d \in FoldDisaggregations}
    \cup {Row(KENYA, KEN, LIFE, d, <<"2",".","5">>) : d \in {<<"N","A">>, SEX_MLE}}
    \* a second indicator, the same country under another spelling, another country
    \cup {Row(KENYA, KEN, UHC, <<"N","A">>, <<"1">>)}
    \cup {Row(KENIA, KEN, LIFE, <<"N","A">>, <<"3">>)}
    \cup {Row(<<"S","o","u","t","h"," ","A","f","r","i","c","a">>, ZAF, LIFE, <<"N","A">>, <<"1">>)}
    \* values that are no number
    \cup {Row(KENYA, KEN, LIFE, <<"N","A">>, v) :
            v \in {<<>>, NO_DATA, <<"a","b","c">>, <<"n","a","n">>}}
    \* a regional aggregate
    \cup {Row(<<"A","f","r","i","c","a","n"," ","R","e","g","i","o","n">>, <<"A","F","R">>, LIFE, <<"N","A">>, <<"1">>)}
    \* codes that are not three letters
    \cup {Row(KENYA, c, LIFE, <<"N","A">>, <<"1">>) : c \in {<<"K","E">>, <<"K","3","N">>}}

ReadRow ==
    /\ pc = "reading"
    /\ Len(rows) < MaxRows
    /\ \E row \in FoldRows : ReadInto(row)

vars == <<pc, rows, country_data, indicator_candidates, all_countries, sanitized_countries,
          final_data, csv_data, escaped_result, sanitized_result, textVars, moreVars>>

Next == ReadRow \/ Finish

Spec == ExtractInit /\ [][Next]_vars

-----------------------------------------------------------------------------
(* Properties of the disaggregation fold *)

\* the row passes every test of extract_correct_aggregates and reaches the store
contributes(row) ==
    /\ ~is_regional(row.Location)
    /\ valid_code(row.LocationCode)
    /\ has_data(row.NumericValue)
    /\ float(row.NumericValue).ok

\* the position in the priority list of the first entry the disaggregation matches
first_match(disaggregation) ==
    SetMin({i \in 1..Len(priority_order) :
               \/ Contains(disaggregation, priority_order[i])
               \/ disaggregation = priority_order[i]})


\* what each row read so far is to the fold: whether it contributes, whether it
\* contributes to the South Africa table, its value, the entry it matches
row_facts ==
    [i \in 1..Len(rows) |->
        the({[ok    |-> /\ ~is_regional(rows[i].Location)
                        /\ valid_code(rows[i].LocationCode)
                        /\ data
                        /\ parsed.ok,
              zaf   |-> rows[i].LocationCode = ZAF /\ data /\ parsed.ok,
              value |-> FloatOf(parsed),
              match |-> first_match(rows[i].Disaggregation)] :
                parsed \in {float(rows[i].NumericValue)},
                data \in {has_data(rows[i].NumericValue)}})]

\* the rows read so far that contribute to the pair (code, indicator)
contributors(facts, code, indicator) ==
    {i \in 1..Len(rows) : /\ facts[i].ok
                          /\ rows[i].LocationCode = code
                          /\ rows[i].IndicatorName = indicator}

\* the rows read so far that contribute to the South Africa table
zaf_contributors(facts, indicator) ==
    {i \in 1..Len(rows) : facts[i].zaf /\ rows[i].IndicatorName = indicator}

\* the stored entry holds the disaggregation and the value of row i
is_record_of(facts, entry, i) ==
    /\ entry.disaggregation = rows[i].Disaggregation
    /\ entry.value = facts[i].value

\* C1: the record kept for a (LocationCode, IndicatorName) pair is a contributing
\* record of the pair, and no contributing record of the pair matches a strictly
\* earlier entry of the priority list than the kept one.
C1_BestPriorityKept ==
    \A facts \in {row_facts} :
        \A c \in 1..Len(country_data) : \A n \in 1..Len(country_data[c].v) :
            \A from \in {contributors(facts, country_data[c].k, country_data[c].v[n].k)} :
                LET entry == country_data[c].v[n].v
                IN  /\ \E i \in from : /\ is_record_of(facts, entry, i)
                                       /\ entry.location = rows[i].Location
                    /\ \A kept \in {first_match(entry.disaggregation)} :
                          \A j \in from : ~(facts[j].match < kept)

\* a pair whose later contributing record matched an earlier entry and took the place
C1_Witness ==
    \E facts \in {row_facts} :
        \E c \in 1..Len(country_data) : \E n \in 1..Len(country_data[c].v) :
            \E from \in {contributors(facts, country_data[c].k, country_data[c].v[n].k)} :
                LET entry == country_data[c].v[n].v
                IN  \E i, j \in from :
                      /\ i < j
                      /\ facts[j].match < facts[i].match
                      /\ is_record_of(facts, entry, j)
                      /\ ~is_record_of(facts, entry, i)

\* the first of the rows in from whose disaggregation has the best priority
first_best(facts, from) ==
    LET best == SetMin({facts[i].match : i \in from})
    IN  SetMin({i \in from : facts[i].match = best})

\* C2: among the contributing records of a pair that share the best priority the
\* first in input order is kept: value, disaggregation and location are its own.
C2_FirstOfEqualPriorityKept ==
    \A facts \in {row_facts} :
        /\ \A c \in 1..Len(country_data) : \A n \in 1..Len(country_data[c].v) :
             \A first \in {first_best(facts, contributors(facts, country_data[c].k,
                                                          country_data[c].v[n].k))} :
                 /\ is_record_of(facts, country_data[c].v[n].v, first)
                 /\ country_data[c].v[n].v.location = rows[first].Location
        /\ \A n \in 1..Len(indicator_candidates) :
             is_record_of(facts, indicator_candidates[n].v,
                          first_best(facts, zaf_contributors(facts, indicator_candidates[n].k)))

\* two contributing records of one pair share the best priority and differ in value
\* and in location, and the earlier one is stored
C2_Witness ==
    \E facts \in {row_facts} :
        \E c \in 1..Len(country_data) : \E n \in 1..Len(country_data[c].v) :
            \E from \in {contributors(facts, country_data[c].k, country_data[c].v[n].k)} :
                LET entry == country_data[c].v[n].v
                IN  \E i, j \in from :
                      /\ i = first_best(facts, from)
                      /\ i < j
                      /\ facts[j].match = facts[i].match
                      /\ rows[j].NumericValue # rows[i].NumericValue
                      /\ rows[j].Location # rows[i].Location
                      /\ is_record_of(facts, entry, i)
                      /\ entry.location = rows[i].Location

\* the row the step reads, when the step reads one
reads_row == Len(rows') = Len(rows) + 1
row_read == rows'[Len(rows')]

\* the values a table without disaggregation holds: (code, indicator, value)
plain_values(cd) ==
    UNION {{<<cd[c].k, cd[c].v.indicators[n].k, cd[c].v.indicators[n].v>> :
               n \in 1..Len(cd[c].v.indicators)} : c \in 1..Len(cd)}

\* C3: a record whose Location is one of the seven regional aggregates, or whose
\* LocationCode is not exactly three alphabetic characters, adds no country entry,
\* no country name and no indicator value to any extractor's table.
C3_AggregatesAndBadCodesDiscarded ==
    [][(/\ reads_row
        /\ \/ row_read.Location \in REGIONAL_AGGREGATES
           \/ Len(row_read.LocationCode) # 3
           \/ \E i \in 1..Len(row_read.LocationCode) : ~IsAlphaChar(row_read.LocationCode[i]))
       => /\ country_data' = country_data
          /\ all_countries' = all_countries
          /\ sanitized_countries' = sanitized_countries]_vars

\* a regional row and a row with a bad code have been read among contributing ones
C3_Witness ==
    /\ \E i \in 1..Len(rows) : rows[i].Location \in REGIONAL_AGGREGATES /\ Len(rows[i].LocationCode) = 3
    /\ \E i \in 1..Len(rows) : rows[i].Location \notin REGIONAL_AGGREGATES /\ ~isalpha(rows[i].LocationCode)
    /\ Len(country_data) = 1
    /\ Len(all_countries) = 1

\* the text is a decimal number with a finite value
is_finite_number(text) == float(text).ok /\ float(text).fin

\* C4: a record whose NumericValue is empty, white space, 'NO DATA', no number or
\* a non-finite number is dropped: it leaves every indicator value unchanged.
C4_OnlyFiniteValuesContribute ==
    [][(/\ reads_row
        /\ \/ row_read.NumericValue = <<>>
           \/ row_read.NumericValue = NO_DATA
           \/ ~is_finite_number(row_read.NumericValue))
       => /\ country_data' = country_data
          /\ plain_values(all_countries') = plain_values(all_countries)
          /\ plain_values(sanitized_countries') = plain_values(sanitized_countries)]_vars

\* C6: the value an extractor without disaggregation stores for a pair is the value
\* extract_correct_aggregates stores for it.
C6_SameTieBreakEverywhere ==
    \A c \in 1..Len(country_data) : \A n \in 1..Len(country_data[c].v) :
        LET triple == <<country_data[c].k, country_data[c].v[n].k, country_data[c].v[n].v.value>>
        IN  /\ triple \in plain_values(all_countries)
            /\ triple \in plain_values(sanitized_countries)

-----------------------------------------------------------------------------
(* Rows of the threshold runs: many indicators per country *)

\* the n-th indicator name
IndicatorNo(n) == <<"i", UpperSeq[n]>>

\* the distinct indicators of the country for which a row has reached the store
indicators_seen(code) ==
    {rows[i].IndicatorName : i \in {j \in 1..Len(rows) : rows[j].LocationCode = code /\ contributes(rows[j])}}

\* the numbers of the indicators the country has no stored candidate for yet
unseen(code) ==
    LET seen == IF dict_has(country_data, code)
                THEN dict_keys(dict_get(country_data, code)) ELSE {}
    IN  {n \in 1..MaxIndicators : IndicatorNo(n) \notin seen}

\* a country's rows bring its indicators in the order of their numbers, and the
\* rows of Kenya come before those of Cote d'Ivoire
FreshRows ==
    LET ken == unseen(KEN)
        civ == unseen(CIV)
    IN  (IF ken # {} /\ Cardinality(civ) = MaxIndicators
         THEN {Row(KENYA, KEN, IndicatorNo(SetMin(ken)), <<"N","A">>, <<"1">>)} ELSE {})
        \cup
        (IF civ # {}
         THEN {Row(COTE, CIV, IndicatorNo(SetMin(civ)), <<"N","A">>, <<"1">>)} ELSE {})

\* rows that bring no fresh indicator in order: a sex-specific repeat, a
\* non-finite value, a regional aggregate
OddRows ==
    {Row(KENYA, KEN, IndicatorNo(1), <<"S","E","X","_","M","L","E">>, <<"2",".","5">>),
     Row(KENYA, KEN, IndicatorNo(MaxIndicators), <<"N","A">>, <<"n","a","n">>),
     Row(<<"G","l","o","b","a","l">>, <<"G","L","O">>, IndicatorNo(1), <<"N","A">>, <<"1">>)}

ReadFreshRow ==
    /\ pc = "reading"
    /\ \E row \in FreshRows : ReadInto(row)

ReadOddRow ==
    /\ pc = "reading"
    /\ Len(rows) < MaxOddRows
    /\ \E row \in OddRows : ReadInto(row)

NextThreshold == ReadFreshRow \/ ReadOddRow \/ Finish

SpecThreshold == ExtractInit /\ [][NextThreshold]_vars

\* the country codes of the rows read
codes_read == {rows[i].LocationCode : i \in 1..Len(rows)}

\* C5: an extractor returns exactly the countries whose number of distinct
\* indicators with a contributing value meets its threshold: 15 for
\* extract_correct_aggregates and extract_all_countries_with_escaping, 10 for
\* extract_all_csv_data and extract_all_sanitized_countries.
C5_ExactlyCountriesMeetingThreshold ==
    pc = "done" =>
        LET with(n) == {c \in codes_read : Cardinality(indicators_seen(c)) >= n}
            with15  == with(15)
            with10  == with(10)
        IN  /\ dict_keys(final_data) = with15
            /\ dict_keys(escaped_result) = with15
            /\ dict_keys(csv_data) = with10
            /\ dict_keys(sanitized_result) = with10

\* one country has exactly 15 indicators and is returned by all four, another has
\* exactly 10 and is returned by the threshold-10 extractors only
C5_Witness ==
    /\ pc = "done"
    /\ Cardinality(indicators_seen(KEN)) = 15
    /\ Cardinality(indicators_seen(CIV)) = 10
    /\ dict_keys(final_data) = {KEN}
    /\ dict_keys(escaped_result) = {KEN}
    /\ dict_keys(csv_data) = {KEN, CIV}
    /\ dict_keys(sanitized_result) = {KEN, CIV}

-----------------------------------------------------------------------------
(* escape_js_string *)

\* the three replace passes, in the order of the code
escape_js_string(t) ==
    str_replace(str_replace(str_replace(t, <<"\\">>, <<"\\", "\\">>),
                            <<"'">>, <<"\\", "'">>),
                <<"\"">>, <<"\\", "\"">>)

MaxText == 3

\* the characters a text is drawn from: a letter, the three characters the
\* function replaces, and a line break
TextAlphabet == {"a", "\\", "'", "\"", "\n"}
Texts == UNION {[1..n -> TextAlphabet] : n \in 0..MaxText}

EscapeInit ==
    /\ pc = "escape"
    /\ rows = <<>>
    /\ country_data = <<>>
    /\ indicator_candidates = <<>>
    /\ all_countries = <<>>
    /\ sanitized_countries = <<>>
    /\ final_data = <<>>
    /\ csv_data = <<>>
    /\ escaped_result = <<>>
    /\ sanitized_result = <<>>
    /\ raw_text \in Texts
    /\ escaped = <<>>
    /\ replacement_code = <<>>
    /\ content = <<>>
    /\ impl_data = <<>>
    /\ results = <<>>
    /\ NoMore

extractVars == <<rows, country_data, indicator_candidates, all_countries, sanitized_countries,
                 final_data, csv_data, escaped_result, sanitized_result>>

Escape ==
    /\ pc = "escape"
    /\ escaped' = escape_js_string(raw_text)
    /\ pc' = "escaped"
    /\ UNCHANGED <<extractVars, raw_text, replacement_code, content, impl_data, results, moreVars>>

NextEscape == Escape
SpecEscape == EscapeInit /\ [][NextEscape]_vars

\* what a JavaScript engine makes of a character that follows a backslash
js_escape_value(c) == IF c = "n" THEN "\n" ELSE IF c = "t" THEN "\t" ELSE c

RECURSIVE js_read(_, _)
\* the string a JavaScript engine reads from the body of a single-quoted literal,
\* from index p on; ok is FALSE where the body is not one literal: on a bare
\* single quote, a raw line break, or a backslash with nothing after it
js_read(body, p) ==
    IF p > Len(body) THEN [ok |-> TRUE, value |-> <<>>]
    ELSE IF body[p] \in {"'", "\n"} THEN [ok |-> FALSE, value |-> <<>>]
    ELSE IF body[p] = "\\" THEN
        IF p = Len(body) THEN [ok |-> FALSE, value |-> <<>>]
        ELSE the({[ok |-> rest.ok, value |-> <<js_escape_value(body[p + 1])>> \o rest.value]
                     : rest \in {js_read(body, p + 2)}})
    ELSE the({[ok |-> rest.ok, value |-> <<body[p]>> \o rest.value]
                 : rest \in {js_read(body, p + 1)}})

\* C9: wrapped in single quotes, the result of escape_js_string is one literal
\* with no bare single quote and no raw line break, and a JavaScript engine
\* reads the input text back from it.
C9_EscapedLiteralReadsBack ==
    pc = "escaped" =>
        \A lit \in {js_read(escaped, 1)} : lit.ok /\ lit.value = raw_text

\* the same, for the texts that have no line break in them
C9_ReadsBackWithoutLineBreak ==
    (pc = "escaped" /\ \A i \in 1..Len(raw_text) : raw_text[i] # "\n") =>
        \A lit \in {js_read(escaped, 1)} : lit.ok /\ lit.value = raw_text

-----------------------------------------------------------------------------
(* repr(float): how an f-string prints a value *)

RECURSIVE digits_of(_)
\* the decimal digits of a natural number
digits_of(n) ==
    IF n < 10 THEN <<DigitSeq[n + 1]>>
    ELSE Append(digits_of(n \div 10), DigitSeq[(n % 10) + 1])

\* ds without its trailing zeros
strip_zeros(ds) ==
    LET nz == {i \in 1..Len(ds) : ds[i] # "0"}
    IN  IF nz = {} THEN <<>> ELSE SubSeq(ds, 1, SetMax(nz))

\* the PREC fraction digits of u units
fraction_digits(u) ==
    LET ds == digits_of(u % Scale)
    IN  [i \in 1..(PREC - Len(ds)) |-> "0"] \o ds

\* d[.ddd]e-XX or d[.ddd]e+XX for the significant digits ds and the exponent e
scientific(ds, e) ==
    LET sig == strip_zeros(ds)
        ex  == digits_of(IF e < 0 THEN 0 - e ELSE e)
    IN  <<sig[1]>> \o (IF Len(sig) > 1 THEN <<".">> \o SubSeq(sig, 2, Len(sig)) ELSE <<>>)
            \o <<"e", IF e < 0 THEN "-" ELSE "+">>
            \o (IF Len(ex) < 2 THEN <<"0">> ELSE <<>>) \o ex

\* repr of a positive finite float of u units: exponent form below 1e-4 and
\* from 1e16 on, digits with at least one fraction digit in between
positive_repr(u) ==
    LET ds == digits_of(u)
        e  == Len(ds) - 1 - PREC
        fr == strip_zeros(fraction_digits(u))
    IN  IF e < -4 \/ e >= 16 THEN scientific(ds, e)
        ELSE digits_of(u \div Scale) \o <<".">> \o (IF fr = <<>> THEN <<"0">> ELSE fr)

\* f"{value}"
FloatRepr(f) ==
    IF ~f.fin THEN (IF f.v = 0 THEN <<"n","a","n">>
                    ELSE IF f.v > 0 THEN <<"i","n","f">> ELSE <<"-","i","n","f">>)
    ELSE IF f.v = 0 THEN <<"0", ".", "0">>
    ELSE IF f.v < 0 THEN <<"-">> \o positive_repr(0 - f.v)
    ELSE positive_repr(f.v)

-----------------------------------------------------------------------------
(* generate_corrected_replacement and implement_corrected_aggregates *)

\* country_data once `for row in reader` has read csv
fold_rows(csv) ==
    for_each(LAMBDA cd, n : fold_aggregates(cd, csv[n]), <<>>, 1, Len(csv))

\* `for indicator, value in data['indicators'].items()`
indicator_lines(indicators) ==
    for_each(LAMBDA code, n :
                 code \o <<" "," "," "," "," "," "," "," ","'">> \o escape_js_string(indicators[n].k) \o <<"'",":"," ">>
                      \o FloatRepr(indicators[n].v) \o <<",","\n">>,
             <<>>, 1, Len(indicators))

\* the replacement code for the countries extracted, `for country_code, data in
\* country_data.items()`; <<>> stands for the None returned when there is none
generate_corrected_replacement(cd) ==
    for_each(LAMBDA code, n :
                 code \o <<" "," "," "," ","'">> \o cd[n].k \o <<"'",":"," ","{","\n">>
                      \o <<" "," "," "," "," "," ","n","a","m","e",":"," ","'">> \o escape_js_string(cd[n].v.name) \o <<"'",",","\n">>
                      \o <<" "," "," "," "," "," ","i","n","d","i","c","a","t","o","r","s",":"," ","{","\n">>
                      \o indicator_lines(cd[n].v.indicators)
                      \o <<" "," "," "," "," "," ","}","\n">>
                      \o <<" "," "," "," ","}",",","\n">>,
             <<>>, 1, Len(cd))

BLOCK_OPEN == <<"c","o","n","s","t"," ","c","o","u","n","t","r","i","e","s",":"," ","R","e","c","o","r","d","<","s","t","r","i","n","g",","," ","a","n","y",">"," ","="," ","{">>
BLOCK_CLOSE == <<"\n"," "," ","}",";">>

\* r"const countries: Record<string, any> = \{(.*?)\n  \};"
block_pattern == <<Lit(BLOCK_OPEN), Open, LazyUntil(BLOCK_CLOSE), Close, Lit(BLOCK_CLOSE)>>

\* a splice that does not ask whether there is anything to write
implemented_unchecked(component, code) ==
    the({IF m.ok
         THEN str_replace(component, group0(component, m),
                          BLOCK_OPEN \o <<"\n">> \o code \o BLOCK_CLOSE)
         ELSE component
            : m \in {re_search(block_pattern, component)}})

\* the component after implement_corrected_aggregates: unchanged when nothing
\* was generated or the countries object is not found
implemented(component, code) ==
    IF code = <<>> THEN component
    ELSE the({IF m.ok
              THEN str_replace(component, group0(component, m),
                               BLOCK_OPEN \o <<"\n">> \o code \o BLOCK_CLOSE)
              ELSE component
                 : m \in {re_search(block_pattern, component)}})

\* len(s.split(lit)) - 1 for a lit that does not overlap itself
count_of(s, lit) == Cardinality({p \in 1..(Len(s) - Len(lit) + 1) : MatchesAt(s, lit, p)})

NAME_KEY == <<"n","a","m","e",":">>

NO_DATA_AVAILABLE == "No all countries data available"
NO_PATTERN == "Could not find countries object pattern"
REPLACED == "Replaced with {} countries with authentic CSV data"

\* the last line perform_all_countries_replacement prints
replacement_report(component, data) ==
    IF data = <<>> THEN <<NO_DATA_AVAILABLE>>
    ELSE IF ~re_search(block_pattern, component).ok THEN <<NO_PATTERN>>
    ELSE <<REPLACED, count_of(data, NAME_KEY)>>

NO_DATA_EXTRACTED == "No data extracted"
IMPLEMENTED == "Successfully implemented {} countries with corrected aggregates"

\* the last line implement_corrected_aggregates prints
implement_report(component, code) ==
    IF code = <<>> THEN <<NO_DATA_EXTRACTED>>
    ELSE IF ~re_search(block_pattern, component).ok THEN <<NO_PATTERN>>
    ELSE <<IMPLEMENTED, count_of(code, NAME_KEY)>>

-----------------------------------------------------------------------------
(* extract_all_implementation_data *)

\* r"'([A-Z]{3})':\s*\{\s*name:\s*'([^']*)',\s*indicators:\s*\{([^}]*)\}\s*\}"
country_pattern == <<
    Lit(<<"'">>), Open, Times(Upper, 3), Close, Lit(<<"'", ":">>), Many(Space),
    Lit(<<"{">>), Many(Space), Lit(<<"n","a","m","e",":">>), Many(Space),
    Lit(<<"'">>), Open, ManyNot({"'"}), Close, Lit(<<"'", ",">>), Many(Space),
    Lit(<<"i","n","d","i","c","a","t","o","r","s",":">>), Many(Space),
    Lit(<<"{">>), Open, ManyNot({"}"}), Close, Lit(<<"}">>), Many(Space), Lit(<<"}">>) >>

\* r"'([^']+)':\s*([\d.-]+),"
indicator_pattern == <<
    Lit(<<"'">>), Open, SomeNot({"'"}), Close, Lit(<<"'", ":">>), Many(Space),
    Open, Some(Digit \cup {".", "-"}), Close, Lit(<<",">>) >>

\* `for indicator, value in indicator_matches`, a ValueError skipping the pair
parsed_indicators(indicators_content) ==
    the({for_each(LAMBDA indicators, n :
                      the({IF p.ok
                           THEN dict_set(indicators, group(indicators_content, matches[n], 1), FloatOf(p))
                           ELSE indicators
                              : p \in {float(group(indicators_content, matches[n], 2))}}),
                  <<>>, 1, Len(matches))
            : matches \in {re_finditer(indicator_pattern, indicators_content)}})

\* `for country_match in country_matches`
parsed_countries(countries_content) ==
    the({for_each(LAMBDA implementation_data, n :
                      the({IF indicators # <<>>
                           THEN dict_set(implementation_data, group(countries_content, matches[n], 1),
                                         [name |-> group(countries_content, matches[n], 2),
                                          indicators |-> indicators])
                           ELSE implementation_data
                              : indicators \in {parsed_indicators(group(countries_content, matches[n], 3))}}),
                  <<>>, 1, Len(matches))
            : matches \in {re_finditer(country_pattern, countries_content)}})

\* the implementation data read from the component; <<>> is {}
extract_all_implementation_data(component) ==
    the({IF m.ok THEN parsed_countries(group(component, m, 1)) ELSE <<>>
            : m \in {re_search(block_pattern, component)}})

-----------------------------------------------------------------------------
(* Writing the countries block and reading it back *)

COTE_DIVOIRE == <<"C","o^","t","e"," ","d","'","I","v","o","i","r","e">>
UGANDA == <<"U","g","a","n","d","a">>
UGA == <<"U","G","A">>
NA == <<"N","A">>
ONE == <<"1">>

\* the rows of one country: as many plain indicators as the threshold needs
\* less one, then the indicator named last with the value text given
table_rows(location, code, plain, last, value) ==
    [n \in 1..plain |-> Row(location, code, IndicatorNo(n), NA, ONE)]
        \o <<Row(location, code, last, NA, value)>>

\* indicator names: plain, and with each character the generated text gives a meaning to
LastIndicators == {
    IndicatorNo(MIN_AGGREGATES),
    <<"a", "'", "b">>, <<"a", "}", "b">>, <<"a", "\"", "b">>, <<"a", "\\", "b">> }

\* value texts of the CSV: 2.5, -0.5, 100, 0.00001, nan
LastValues == {
    <<"2", ".", "5">>, <<"-", "0", ".", "5">>, <<"1", "0", "0">>,
    <<"0", ".", "0", "0", "0", "0", "1">>, <<"n", "a", "n">> }

FirstTables ==
    {table_rows(location[1], location[2], MIN_AGGREGATES - 1, last, value) :
        location \in {<<KENYA, KEN>>, <<COTE_DIVOIRE, CIV>>},
        last \in LastIndicators, value \in LastValues}

\* no second country, one that meets the threshold, one that misses it by one
SecondTables ==
    {<<>>,
     table_rows(UGANDA, UGA, MIN_AGGREGATES - 1, IndicatorNo(MIN_AGGREGATES), ONE),
     table_rows(UGANDA, UGA, MIN_AGGREGATES - 2, IndicatorNo(MIN_AGGREGATES), ONE)}

Csvs == {first \o second : first \in FirstTables, second \in SecondTables}

HEAD == <<"/","/"," ","m","a","p","\n">>
TAIL == <<"\n">>
\* the component with an empty countries object, with an earlier one, with none
Components == {
    HEAD \o BLOCK_OPEN \o BLOCK_CLOSE \o TAIL,
    HEAD \o BLOCK_OPEN \o <<"\n"," "," "," "," ","'","T","G","O","'",":"," ","{","}",",">> \o BLOCK_CLOSE \o TAIL,
    HEAD \o TAIL }

RoundTripInit ==
    /\ pc = "implement"
    /\ rows \in Csvs
    /\ content \in Components
    /\ country_data = <<>>
    /\ indicator_candidates = <<>>
    /\ all_countries = <<>>
    /\ sanitized_countries = <<>>
    /\ final_data = <<>>
    /\ csv_data = <<>>
    /\ escaped_result = <<>>
    /\ sanitized_result = <<>>
    /\ raw_text = <<>>
    /\ escaped = <<>>
    /\ replacement_code = <<>>
    /\ impl_data = <<>>
    /\ results = <<>>
    /\ NoMore

\* implement_corrected_aggregates
Implement ==
    /\ pc = "implement"
    /\ country_data' = fold_rows(rows)
    /\ final_data' = final_values(country_data', MIN_AGGREGATES)
    /\ replacement_code' = generate_corrected_replacement(final_data')
    /\ content' = implemented(content, replacement_code')
    /\ printed' = implement_report(content, replacement_code')
    /\ pc' = "implemented"
    /\ UNCHANGED <<rows, indicator_candidates, all_countries, sanitized_countries,
                   csv_data, escaped_result, sanitized_result, raw_text, escaped, impl_data, results,
                   replacement_file, sanitized_name, safe_countries, additional_countries,
                   authentic_data, complete_country_data, csv_available, csv_missing,
                   countries_data, country_scores>>

\* extract_all_implementation_data
ParseImplementation ==
    /\ pc = "implemented"
    /\ impl_data' = extract_all_implementation_data(content)
    /\ pc' = "parsed"
    /\ UNCHANGED <<extractVars, raw_text, escaped, replacement_code, content, results, moreVars>>

NextRoundTrip == Implement \/ ParseImplementation
SpecRoundTrip == RoundTripInit /\ [][NextRoundTrip]_vars

\* the countries block of the component holds the tables generated
block_written == final_data # <<>> /\ re_search(block_pattern, content).ok

\* the indicator names and values of country code in d
indicators_of(d, code) ==
    {<<e.k, e.v>> : e \in SeqRange(dict_get(d, code).indicators)}

\* C7: the block written by generate_corrected_replacement is re-parsed by
\* extract_all_implementation_data to the same country codes, and for each
\* country to the same indicator names with the same values.
C7_RoundTripOfGeneratedText ==
    (pc = "parsed" /\ block_written) =>
        /\ dict_keys(impl_data) = dict_keys(final_data)
        /\ \A code \in dict_keys(final_data) \cap dict_keys(impl_data) :
               indicators_of(impl_data, code) = indicators_of(final_data, code)

\* a text the generated block is read back from as written: none of the
\* characters ' " \ } in it
plain_text(t) == \A i \in 1..Len(t) : t[i] \notin {"'", "\"", "\\", "}"}

\* a value printed as digits with a point and, if negative, a sign
plain_value(f) == f.fin /\ \A ch \in SeqRange(FloatRepr(f)) : ch \in Digit \cup {".", "-"}

\* the same round trip, for tables whose country names and indicator names are
\* plain texts and whose values are printed as plain decimals
C7_RoundTripOfPlainTables ==
    (/\ pc = "parsed"
     /\ block_written
     /\ \A e \in SeqRange(final_data) :
            /\ plain_text(e.v.name)
            /\ \A ind \in SeqRange(e.v.indicators) : plain_text(ind.k) /\ plain_value(ind.v)) =>
        /\ dict_keys(impl_data) = dict_keys(final_data)
        /\ \A code \in dict_keys(final_data) :
               indicators_of(impl_data, code) = indicators_of(final_data, code)

-----------------------------------------------------------------------------
(* fix_country_names_in_file *)

\* the (old_text, new_text) pairs
fixes == <<
    <<<<"n","a","m","e",":"," ","'","C","o^","t","e"," ","d","'","I","v","o","i","r","e","'",",">>,
      <<"n","a","m","e",":"," ","'","C","o","t","e"," ","d","\\","'","I","v","o","i","r","e","'",",">>>>,
    <<<<"n","a","m","e",":"," ","'","B","o","l","i","v","i","a"," ","(","P","l","u","r","i","n","a","t","i","o","n","a","l"," ","S","t","a","t","e"," ","o","f",")","'",",">>,
      <<"n","a","m","e",":"," ","'","B","o","l","i","v","i","a"," ","(","P","l","u","r","i","n","a","t","i","o","n","a","l"," ","S","t","a","t","e"," ","o","f",")","'",",">>>>,
    <<<<"n","a","m","e",":"," ","'","I","r","a","n"," ","(","I","s","l","a","m","i","c"," ","R","e","p","u","b","l","i","c"," ","o","f",")","'",",">>,
      <<"n","a","m","e",":"," ","'","I","r","a","n"," ","(","I","s","l","a","m","i","c"," ","R","e","p","u","b","l","i","c"," ","o","f",")","'",",">>>>,
    <<<<"n","a","m","e",":"," ","'","V","e","n","e","z","u","e","l","a"," ","(","B","o","l","i","v","a","r","i","a","n"," ","R","e","p","u","b","l","i","c"," ","o","f",")","'",",">>,
      <<"n","a","m","e",":"," ","'","V","e","n","e","z","u","e","l","a"," ","(","B","o","l","i","v","a","r","i","a","n"," ","R","e","p","u","b","l","i","c"," ","o","f",")","'",",">>>>,
    <<<<"n","a","m","e",":"," ","'","C","h","i","n","a",","," ","H","o","n","g"," ","K","o","n","g"," ","S","A","R","'",",">>,
      <<"n","a","m","e",":"," ","'","C","h","i","n","a",","," ","H","o","n","g"," ","K","o","n","g"," ","S","A","R","'",",">>>>,
    <<<<"n","a","m","e",":"," ","'","C","h","i","n","a",","," ","M","a","c","a","o"," ","S","A","R","'",",">>,
      <<"n","a","m","e",":"," ","'","C","h","i","n","a",","," ","M","a","c","a","o"," ","S","A","R","'",",">>>>,
    <<<<"n","a","m","e",":"," ","'","U","n","i","t","e","d"," ","K","i","n","g","d","o","m"," ","o","f"," ","G","r","e","a","t"," ","B","r","i","t","a","i","n"," ","a","n","d"," ","N","o","r","t","h","e","r","n"," ","I","r","e","l","a","n","d","'",",">>,
      <<"n","a","m","e",":"," ","'","U","n","i","t","e","d"," ","K","i","n","g","d","o","m"," ","o","f"," ","G","r","e","a","t"," ","B","r","i","t","a","i","n"," ","a","n","d"," ","N","o","r","t","h","e","r","n"," ","I","r","e","l","a","n","d","'",",">>>>,
    <<<<"n","a","m","e",":"," ","'","U","n","i","t","e","d"," ","R","e","p","u","b","l","i","c"," ","o","f"," ","T","a","n","z","a","n","i","a","'",",">>,
      <<"n","a","m","e",":"," ","'","U","n","i","t","e","d"," ","R","e","p","u","b","l","i","c"," ","o","f"," ","T","a","n","z","a","n","i","a","'",",">>>>,
    <<<<"n","a","m","e",":"," ","'","R","e","p","u","b","l","i","c"," ","o","f"," ","K","o","r","e","a","'",",">>,
      <<"n","a","m","e",":"," ","'","R","e","p","u","b","l","i","c"," ","o","f"," ","K","o","r","e","a","'",",">>>>,
    <<<<"n","a","m","e",":"," ","'","R","e","p","u","b","l","i","c"," ","o","f"," ","M","o","l","d","o","v","a","'",",">>,
      <<"n","a","m","e",":"," ","'","R","e","p","u","b","l","i","c"," ","o","f"," ","M","o","l","d","o","v","a","'",",">>>>,
    <<<<"n","a","m","e",":"," ","'","D","e","m","o","c","r","a","t","i","c"," ","P","e","o","p","l","e","'","s"," ","R","e","p","u","b","l","i","c"," ","o","f"," ","K","o","r","e","a","'",",">>,
      <<"n","a","m","e",":"," ","'","D","e","m","o","c","r","a","t","i","c"," ","P","e","o","p","l","e","\\","'","s"," ","R","e","p","u","b","l","i","c"," ","o","f"," ","K","o","r","e","a","'",",">>>>,
    <<<<"n","a","m","e",":"," ","'","L","a","o"," ","P","e","o","p","l","e","'","s"," ","D","e","m","o","c","r","a","t","i","c"," ","R","e","p","u","b","l","i","c","'",",">>,
      <<"n","a","m","e",":"," ","'","L","a","o"," ","P","e","o","p","l","e","\\","'","s"," ","D","e","m","o","c","r","a","t","i","c"," ","R","e","p","u","b","l","i","c","'",",">>>> >>

\* r"name: '([^']*'[^']*)',\n"
name_pattern == <<
    Lit(<<"n","a","m","e",":"," ","'">>), Open, ManyNot({"'"}), Lit(<<"'">>), ManyNot({"'"}), Close,
    Lit(<<"'",",","\n">>) >>

\* the replacement for one match of name_pattern
escape_quotes(t, m) ==
    <<"n","a","m","e",":"," ","'">> \o str_replace(group(t, m, 1), <<"'">>, <<"\\", "'">>) \o <<"'",",","\n">>

\* re.sub(pattern, repl, t): the text between the matches kept, each match replaced
re_sub(prog, repl(_, _), t) ==
    the({the({done.out \o SubSeq(t, done.end, Len(t))
                 : done \in {for_each(LAMBDA acc, n :
                                          [out |-> acc.out \o SubSeq(t, acc.end, matches[n].start - 1)
                                                           \o repl(t, matches[n]),
                                           end |-> matches[n].end],
                                      [out |-> <<>>, end |-> 1], 1, Len(matches))}})
            : matches \in {re_finditer(prog, t)}})

\* the component after fix_country_names_in_file: the fixes in order, then the
\* general pass
fix_country_names(component) ==
    re_sub(name_pattern, escape_quotes,
           for_each(LAMBDA fixed, n : str_replace(fixed, fixes[n][1], fixes[n][2]),
                    component, 1, Len(fixes)))

MaxNames == 3

LAO == <<"L","a","o"," ","P","e","o","p","l","e","'","s"," ","D","e","m","o","c","r","a","t","i","c"," ","R","e","p","u","b","l","i","c">>
\* country names as the generators write them into the component: without a
\* quote, with one quote from the list of fixes, with one quote not from the
\* list, with two quotes, and already escaped by escape_js_string
WrittenNames == {
    KENYA, COTE_DIVOIRE, LAO, <<"a", "'", "b">>, <<"a", "'", "b", "'", "c">>,
    escape_js_string(COTE_DIVOIRE) }

\* one country of the countries object, its name written as given
written_entry(name) ==
    <<" "," "," "," ","'">> \o KEN \o <<"'",":"," ","{","\n">> \o <<" "," "," "," "," "," ","n","a","m","e",":"," ","'">> \o name \o <<"'",",","\n">>
        \o <<" "," "," "," "," "," ","i","n","d","i","c","a","t","o","r","s",":"," ","{","\n">> \o <<" "," "," "," "," "," "," "," ","'","i","A","'",":"," ","1",".","0",",","\n">> \o <<" "," "," "," "," "," ","}","\n">> \o <<" "," "," "," ","}",",","\n">>

written_component(names) ==
    HEAD \o BLOCK_OPEN \o <<"\n">>
         \o for_each(LAMBDA code, n : code \o written_entry(names[n]), <<>>, 1, Len(names))
         \o BLOCK_CLOSE \o TAIL

NamedComponents ==
    {written_component(names) : names \in UNION {[1..n -> WrittenNames] : n \in 0..MaxNames}}

FixNamesInit ==
    /\ pc = "fix"
    /\ content \in NamedComponents
    /\ rows = <<>>
    /\ country_data = <<>>
    /\ indicator_candidates = <<>>
    /\ all_countries = <<>>
    /\ sanitized_countries = <<>>
    /\ final_data = <<>>
    /\ csv_data = <<>>
    /\ escaped_result = <<>>
    /\ sanitized_result = <<>>
    /\ raw_text = <<>>
    /\ escaped = <<>>
    /\ replacement_code = <<>>
    /\ impl_data = <<>>
    /\ results = <<>>
    /\ NoMore

\* fix_country_names_in_file
FixNames ==
    /\ pc = "fix"
    /\ content' = fix_country_names(content)
    /\ pc' = "fixed"
    /\ UNCHANGED <<extractVars, raw_text, escaped, replacement_code, impl_data, results, moreVars>>

NextFixNames == FixNames
SpecFixNames == FixNamesInit /\ [][NextFixNames]_vars

\* the bodies of the `name: '...',` literals of the component: from each
\* `name: '` to the next quote that a comma and a line break follow
name_literals(component) ==
    {SubSeq(component, p + Len(<<"n","a","m","e",":"," ","'">>), Find(component, <<"'",",","\n">>, p + Len(<<"n","a","m","e",":"," ","'">>)) - 1)
        : p \in {q \in 1..Len(component) : MatchesAt(component, <<"n","a","m","e",":"," ","'">>, q)}}

\* every quote of the body has a backslash before it, and no backslash has
\* another backslash before it
valid_name_literal(body) ==
    \A i \in 1..Len(body) :
        /\ body[i] = "'" => (i > 1 /\ body[i - 1] = "\\")
        /\ body[i] = "\\" => (i = 1 \/ body[i - 1] # "\\")

\* C10: after fix_country_names_in_file every name literal of the component is
\* valid: each quote inside a name is preceded by exactly one backslash and no
\* backslash is doubled.
C10_NameLiteralsValidAfterFix ==
    pc = "fixed" => \A body \in name_literals(content) : valid_name_literal(body)

-----------------------------------------------------------------------------
(* perform_system_wide_verification *)

\* `abs(csv_val - impl_val) < 0.001`: false of a difference that is nan or
\* infinite.  Differences are exact here, so values are kept clear of a
\* difference of exactly 0.001, where binary rounding decides.
within_tolerance(csv_val, impl_val) ==
    /\ csv_val.fin
    /\ impl_val.fin
    /\ (IF csv_val.v >= impl_val.v THEN csv_val.v - impl_val.v
        ELSE impl_val.v - csv_val.v) * 1000 < Scale

\* country_matches and country_discrepancies after `for indicator in csv_indicators`
country_counts(csv_indicators, impl_indicators) ==
    for_each(LAMBDA counts, n :
                 IF ~dict_has(impl_indicators, csv_indicators[n].k) THEN counts
                 ELSE IF within_tolerance(csv_indicators[n].v,
                                          dict_get(impl_indicators, csv_indicators[n].k))
                 THEN [counts EXCEPT !.country_matches = @ + 1]
                 ELSE [counts EXCEPT !.country_discrepancies = @ + 1],
             [country_matches |-> 0, country_discrepancies |-> 0], 1, Len(csv_indicators))

PERFECT == "PERFECT DATA INTEGRITY ACHIEVED"
ISSUES == "DATA INTEGRITY ISSUES DETECTED"

\* the totals after `for country_code in sorted(common_countries)`, which do not
\* depend on the order of the countries, and the status printed for them
verification(csv, impl) ==
    the({the({[total_countries       |-> totals.total_countries,
               total_indicators      |-> totals.total_indicators,
               exact_matches         |-> totals.exact_matches,
               discrepancies         |-> totals.discrepancies,
               countries_with_issues |-> totals.countries_with_issues,
               status |-> IF totals.discrepancies = 0 THEN PERFECT ELSE ISSUES]
                 : totals \in {for_each(
                     LAMBDA t, n :
                         the({[total_countries       |-> t.total_countries + 1,
                               total_indicators      |-> t.total_indicators + Len(common[n].v.indicators),
                               exact_matches         |-> t.exact_matches + c.country_matches,
                               discrepancies         |-> t.discrepancies + c.country_discrepancies,
                               countries_with_issues |-> t.countries_with_issues
                                   + (IF c.country_discrepancies > 0 THEN 1 ELSE 0)]
                                 : c \in {country_counts(common[n].v.indicators,
                                                         dict_get(impl, common[n].k).indicators)}}),
                     [total_countries |-> 0, total_indicators |-> 0, exact_matches |-> 0,
                      discrepancies |-> 0, countries_with_issues |-> 0],
                     1, Len(common))}})
            : common \in {SelectSeq(csv, LAMBDA e : dict_has(impl, e.k))}})

TGO == <<"T","G","O">>
TOGO == <<"T","o","g","o">>

\* the float a value text of the CSV is read as
value_of(value) == FloatOf(float(value))

\* the CSV: Kenya with as many indicators as the threshold asks for, the last
\* of them 2.5, 2.5004, 3 or nan, and Uganda or not
VerifiedCsvs ==
    {table_rows(KENYA, KEN, MIN_VERIFIED - 1, IndicatorNo(MIN_VERIFIED), value) \o second :
        value \in {<<"2", ".", "5">>, <<"2", ".", "5", "0", "0", "4">>, <<"3">>, <<"n", "a", "n">>},
        second \in {<<>>, table_rows(UGANDA, UGA, MIN_VERIFIED - 1, IndicatorNo(MIN_VERIFIED), ONE)}}

\* Kenya as the component shows it: the indicators of the CSV, the last of them
\* with the value given, and then the indicators of extra
displayed_kenya(value, extra) ==
    [k |-> KEN,
     v |-> [name |-> KENYA,
            indicators |-> [n \in 1..(MIN_VERIFIED - 1) |-> [k |-> IndicatorNo(n), v |-> value_of(ONE)]]
                               \o <<[k |-> IndicatorNo(MIN_VERIFIED), v |-> value_of(value)]>>
                               \o extra]]

\* a country the CSV does not have
displayed_togo ==
    [k |-> TGO, v |-> [name |-> TOGO, indicators |-> <<[k |-> IndicatorNo(1), v |-> value_of(<<"9">>)]>>]]

\* what the component shows: Kenya or not, its last value 2.5 or 3, with or
\* without an indicator the CSV does not have, and Togo or not
DisplayedTables ==
    {kenya \o togo :
        kenya \in {<<>>} \cup {<<displayed_kenya(value, extra)>> :
                       value \in {<<"2", ".", "5">>, <<"3">>},
                       extra \in {<<>>, <<[k |-> IndicatorNo(24), v |-> value_of(<<"7">>)]>>}},
        togo \in {<<>>, <<displayed_togo>>}}

VerifiedComponents ==
    {HEAD \o BLOCK_OPEN \o <<"\n">> \o generate_corrected_replacement(shown) \o BLOCK_CLOSE \o TAIL
        : shown \in DisplayedTables} \cup {HEAD \o TAIL}

VerifyInit ==
    /\ pc = "verify"
    /\ rows \in VerifiedCsvs
    /\ content \in VerifiedComponents
    /\ country_data = <<>>
    /\ indicator_candidates = <<>>
    /\ all_countries = <<>>
    /\ sanitized_countries = <<>>
    /\ final_data = <<>>
    /\ csv_data = <<>>
    /\ escaped_result = <<>>
    /\ sanitized_result = <<>>
    /\ raw_text = <<>>
    /\ escaped = <<>>
    /\ replacement_code = <<>>
    /\ impl_data = <<>>
    /\ results = <<>>
    /\ NoMore

\* perform_system_wide_verification
Verify ==
    /\ pc = "verify"
    /\ country_data' = fold_rows(rows)
    /\ csv_data' = final_values(country_data', MIN_VERIFIED)
    /\ impl_data' = extract_all_implementation_data(content)
    /\ results' = verification(csv_data', impl_data')
    /\ pc' = "verified"
    /\ UNCHANGED <<rows, indicator_candidates, all_countries, sanitized_countries, final_data,
                   escaped_result, sanitized_result, raw_text, escaped, replacement_code, content, moreVars>>

NextVerify == Verify
SpecVerify == VerifyInit /\ [][NextVerify]_vars

\* the value the CSV has for an indicator of a country is within 0.001 of value
csv_value_matches(code, indicator, value) ==
    /\ dict_has(csv_data, code)
    /\ dict_has(dict_get(csv_data, code).indicators, indicator)
    /\ \E csv_val \in {dict_get(dict_get(csv_data, code).indicators, indicator)} :
           /\ csv_val.fin
           /\ value.fin
           /\ (csv_val.v - value.v) * 1000 < Scale
           /\ (value.v - csv_val.v) * 1000 < Scale

\* C8: the verification reports PERFECT DATA INTEGRITY ACHIEVED only if every
\* indicator value of every country of the implementation block has a CSV value
\* for the same country and indicator within 0.001 of it.
C8_PerfectOnlyIfEveryValueMatches ==
    (pc = "verified" /\ results.status = PERFECT) =>
        \A e \in SeqRange(impl_data) : \A ind \in SeqRange(e.v.indicators) :
            csv_value_matches(e.k, ind.k, ind.v)

\* what the report does establish: the values that both the CSV and the
\* implementation have for a country and an indicator are within 0.001
C8_PerfectOnlyIfSharedValuesMatch ==
    (pc = "verified" /\ results.status = PERFECT) =>
        \A e \in SeqRange(impl_data) : \A ind \in SeqRange(e.v.indicators) :
            (dict_has(csv_data, e.k) /\ dict_has(dict_get(csv_data, e.k).indicators, ind.k))
                => csv_value_matches(e.k, ind.k, ind.v)

-----------------------------------------------------------------------------
(* The mass replacements: read_all_countries_data and perform_all_countries_replacement. *)
(* perform_mass_replacement and perform_sanitized_countries_replacement are the same     *)
(* code with another file name, another marker and other messages.                       *)

DATA_OPEN == <<"c","o","n","s","t"," ","a","l","l","C","o","u","n","t","r","i","e","s","A","u","t","h","e","n","t","i","c","W","H","O","D","a","t","a"," ","="," ","{">>
DATA_END == <<"}",";">>

\* str.rfind: the last index at which lit occurs in s, 0 if there is none
rfind(s, lit) ==
    LET hits == {p \in 1..(Len(s) - Len(lit) + 1) : MatchesAt(s, lit, p)}
    IN  IF hits = {} THEN 0 ELSE SetMax(hits)

\* s[start:end] for Python's indices from 0, start >= 0, a negative end counted
\* from the end of s
slice(s, start, end) ==
    LET e == IF end < 0 THEN (IF Len(s) + end < 0 THEN 0 ELSE Len(s) + end)
             ELSE IF end > Len(s) THEN Len(s) ELSE end
    IN  IF start >= e THEN <<>> ELSE SubSeq(s, start + 1, e)

\* read_all_countries_data: <<>> stands for None (no file) as well as for ''.
\* str.find and str.rfind return -1 where there is no occurrence.
read_all_countries_data(file) ==
    IF ~file.exists THEN <<>>
    ELSE strip(slice(file.text,
                     (Find(file.text, DATA_OPEN, 1) - 1) + Len(DATA_OPEN),
                     rfind(file.text, DATA_END) - 1))

FILE_HEAD == <<"/","/"," ","A","L","L"," ","C","O","U","N","T","R","I","E","S"," ","A","U","T","H","E","N","T","I","C"," ","W","H","O"," ","S","T","A","T","I","S","T","I","C","A","L"," ","A","N","N","E","X"," ","D","A","T","A","\n","/","/"," ","Z","e","r","o"," ","t","o","l","e","r","a","n","c","e"," ","-"," ","o","n","l","y"," ","e","x","a","c","t"," ","C","S","V"," ","v","a","l","u","e","s"," ","i","n","c","l","u","d","e","d","\n","\n">>
FILE_TAIL == <<"}",";","\n">>

\* the replacement file as generate_all_countries_replacement writes it
replacement_file_of(code) == [exists |-> TRUE, text |-> FILE_HEAD \o DATA_OPEN \o <<"\n">> \o code \o FILE_TAIL]

\* no file, an empty file, a file with comments only, a file with an empty
\* object, with one country, with two
ReplacementFiles == {
    NO_FILE,
    [exists |-> TRUE, text |-> <<>>],
    [exists |-> TRUE, text |-> FILE_HEAD],
    replacement_file_of(<<>>),
    replacement_file_of(generate_corrected_replacement(<<displayed_togo>>)),
    replacement_file_of(generate_corrected_replacement(<<displayed_kenya(ONE, <<>>), displayed_togo>>)) }

OLD_BLOCK == BLOCK_OPEN \o <<"\n"," "," "," "," ","'","T","G","O","'",":"," ","{","}",",">> \o BLOCK_CLOSE
OTHER_BLOCK == BLOCK_OPEN \o <<"\n"," "," "," "," ","'","U","G","A","'",":"," ","{","}",",">> \o BLOCK_CLOSE
COPY == <<"\n","/","/"," ","p","r","e","v","i","o","u","s","\n">>

\* the component: without a countries object, with an empty one, with an
\* earlier one, with a second object after it, with the earlier one twice,
\* and with the earlier one after the text of another
SpliceComponents == {
    HEAD \o TAIL,
    HEAD \o BLOCK_OPEN \o BLOCK_CLOSE \o TAIL,
    HEAD \o OLD_BLOCK \o TAIL,
    HEAD \o OLD_BLOCK \o COPY \o OTHER_BLOCK \o TAIL,
    HEAD \o OLD_BLOCK \o COPY \o OLD_BLOCK \o TAIL,
    HEAD \o OTHER_BLOCK \o COPY \o OLD_BLOCK \o TAIL }

-----------------------------------------------------------------------------
(* complete_data_replacement.py: extract_csv_data and write_complete_replacement *)

\* extract_csv_data: the body of `for row in reader`
fold_complete(cd, row) ==
    the({IF ~p.ok THEN cd
         ELSE the({IF p.none THEN created
                   ELSE dict_set(created, row.LocationCode,
                                 [dict_get(created, row.LocationCode) EXCEPT !.indicators =
                                     dict_set(@, row.IndicatorName, FloatOf(p))])
                      : created \in {IF dict_has(cd, row.LocationCode) THEN cd
                                     ELSE dict_set(cd, row.LocationCode,
                                                   [name |-> row.Location, indicators |-> <<>>])}})
            : p \in {IF strip(row.NumericValue) = <<>>
                     THEN [ok |-> TRUE, none |-> TRUE, fin |-> FALSE, v |-> 0]
                     ELSE [none |-> FALSE] @@ float(row.NumericValue)}})

\* extract_csv_data
extract_csv_data(csv) ==
    for_each(LAMBDA cd, n : fold_complete(cd, csv[n]), <<>>, 1, Len(csv))

DATA_START == <<"c","o","n","s","t"," ","A","U","T","H","E","N","T","I","C","_","W","H","O","_","D","A","T","A"," ","="," ","{">>
\* r'const AUTHENTIC_WHO_DATA = {'
start_pattern == <<Lit(DATA_START)>>
\* r'};(\s*\/\/ Calculate.*)' with re.DOTALL
end_pattern == <<Lit(<<"}", ";">>), Open, Many(Space), Lit(<<"/","/"," ","C","a","l","c","u","l","a","t","e">>), ManyNot({}), Close>>

target_countries == <<
    <<"U","S","A">>,
    <<"C","H","N">>,
    <<"D","E","U">>,
    <<"F","R","A">>,
    <<"G","B","R">>,
    <<"J","P","N">>,
    <<"I","N","D">>,
    <<"B","R","A">>,
    <<"R","U","S">>,
    <<"C","A","N">>,
    <<"A","U","S">>,
    <<"N","G","A">>,
    <<"E","T","H">>,
    <<"Z","A","F">>,
    <<"K","E","N">>,
    <<"M","E","X">>,
    <<"I","D","N">>,
    <<"T","U","R">>,
    <<"A","R","G">> >>

all_indicators == <<
    <<"A","d","o","l","e","s","c","e","n","t"," ","b","i","r","t","h"," ","r","a","t","e"," ","(","p","e","r"," ","1","0","0","0"," ","w","o","m","e","n"," ","a","g","e","d"," ","1","0","-","1","4"," ","y","e","a","r","s",")">>,
    <<"A","d","o","l","e","s","c","e","n","t"," ","b","i","r","t","h"," ","r","a","t","e"," ","(","p","e","r"," ","1","0","0","0"," ","w","o","m","e","n"," ","a","g","e","d"," ","1","5","-","1","9"," ","y","e","a","r","s",")">>,
    <<"A","g","e","-","s","t","a","n","d","a","r","d","i","z","e","d"," ","m","o","r","t","a","l","i","t","y"," ","r","a","t","e"," ","a","t","t","r","i","b","u","t","e","d"," ","t","o"," ","h","o","u","s","e","h","o","l","d"," ","a","n","d"," ","a","m","b","i","e","n","t"," ","a","i","r"," ","p","o","l","l","u","t","i","o","n"," "," ","(","p","e","r"," ","1","0","0"," ","0","0","0"," ","p","o","p","u","l","a","t","i","o","n",")">>,
    <<"A","g","e","-","s","t","a","n","d","a","r","d","i","z","e","d"," ","p","r","e","v","a","l","e","n","c","e"," ","o","f"," ","t","o","b","a","c","c","o"," ","u","s","e"," ","a","m","o","n","g"," ","p","e","r","s","o","n","s"," ","1","5"," ","y","e","a","r","s"," ","a","n","d"," ","o","l","d","e","r"," "," ","(","%",")">>,
    <<"A","n","n","u","a","l"," ","m","e","a","n"," ","c","o","n","c","e","n","t","r","a","t","i","o","n","s"," ","o","f"," ","f","i","n","e"," ","p","a","r","t","i","c","u","l","a","t","e"," ","m","a","t","t","e","r"," ","(","P","M","2",".","5",")"," ","i","n"," ","u","r","b","a","n"," ","a","r","e","a","s"," ","(","mu","g","/","m","3",")">>,
    <<"A","v","e","r","a","g","e"," ","o","f"," ","1","5"," ","I","n","t","e","r","n","a","t","i","o","n","a","l"," ","H","e","a","l","t","h"," ","R","e","g","u","l","a","t","i","o","n","s"," ","c","o","r","e"," ","c","a","p","a","c","i","t","y"," ","s","c","o","r","e","s">>,
    <<"D","e","n","s","i","t","y"," ","o","f"," ","d","e","n","t","i","s","t","s"," ","(","p","e","r"," ","1","0"," ","0","0","0"," ","p","o","p","u","l","a","t","i","o","n",")">>,
    <<"D","e","n","s","i","t","y"," ","o","f"," ","m","e","d","i","c","a","l"," ","d","o","c","t","o","r","s"," ","(","p","e","r"," ","1","0"," ","0","0","0"," ","p","o","p","u","l","a","t","i","o","n",")">>,
    <<"D","e","n","s","i","t","y"," ","o","f"," ","n","u","r","s","i","n","g"," ","a","n","d"," ","m","i","d","w","i","f","e","r","y"," ","p","e","r","s","o","n","n","e","l"," ","(","p","e","r"," ","1","0"," ","0","0","0"," ","p","o","p","u","l","a","t","i","o","n",")">>,
    <<"D","e","n","s","i","t","y"," ","o","f"," ","p","h","a","r","m","a","c","i","s","t","s"," ","(","p","e","r"," ","1","0"," ","0","0","0"," ","p","o","p","u","l","a","t","i","o","n",")">>,
    <<"D","i","p","h","t","h","e","r","i","a","-","t","e","t","a","n","u","s","-","p","e","r","t","u","s","s","i","s"," ","(","D","T","P","3",")"," ","i","m","m","u","n","i","z","a","t","i","o","n"," ","c","o","v","e","r","a","g","e"," ","a","m","o","n","g"," ","1","-","y","e","a","r","-","o","l","d","s"," ","(","%",")">>,
    <<"D","o","m","e","s","t","i","c"," ","g","e","n","e","r","a","l"," ","g","o","v","e","r","n","m","e","n","t"," ","h","e","a","l","t","h"," ","e","x","p","e","n","d","i","t","u","r","e"," ","(","G","G","H","E","-","D",")"," ","a","s"," ","p","e","r","c","e","n","t","a","g","e"," ","o","f"," ","g","e","n","e","r","a","l"," ","g","o","v","e","r","n","m","e","n","t"," ","e","x","p","e","n","d","i","t","u","r","e"," ","(","G","G","E",")"," ","(","%",")">>,
    <<"H","e","a","l","t","h","y"," ","l","i","f","e"," ","e","x","p","e","c","t","a","n","c","y"," ","a","t"," ","b","i","r","t","h"," ","(","y","e","a","r","s",")">>,
    <<"H","e","p","a","t","i","t","i","s"," ","B"," ","s","u","r","f","a","c","e"," ","a","n","t","i","g","e","n"," ","(","H","B","s","A","g",")"," ","p","r","e","v","a","l","e","n","c","e"," ","a","m","o","n","g"," ","c","h","i","l","d","r","e","n"," ","u","n","d","e","r"," ","5"," ","y","e","a","r","s"," ","(","%",")">>,
    <<"H","u","m","a","n"," ","p","a","p","i","l","l","o","m","a","v","i","r","u","s"," ","(","H","P","V",")"," ","i","m","m","u","n","i","z","a","t","i","o","n"," ","c","o","v","e","r","a","g","e"," ","e","s","t","i","m","a","t","e","s"," ","a","m","o","n","g"," ","1","5"," ","y","e","a","r","-","o","l","d"," ","g","i","r","l","s"," ","(","%",")">>,
    <<"L","i","f","e"," ","e","x","p","e","c","t","a","n","c","y"," ","a","t"," ","b","i","r","t","h"," ","(","y","e","a","r","s",")">>,
    <<"M","a","t","e","r","n","a","l"," ","m","o","r","t","a","l","i","t","y"," ","r","a","t","i","o"," ","(","p","e","r"," ","1","0","0"," ","0","0","0"," ","l","i","v","e"," ","b","i","r","t","h","s",")">>,
    <<"M","e","a","s","l","e","s","-","c","o","n","t","a","i","n","i","n","g","-","v","a","c","c","i","n","e"," ","s","e","c","o","n","d","-","d","o","s","e"," ","(","M","C","V","2",")"," ","i","m","m","u","n","i","z","a","t","i","o","n"," ","c","o","v","e","r","a","g","e"," ","b","y"," ","t","h","e"," ","l","o","c","a","l","l","y"," ","r","e","c","o","m","m","e","n","d","e","d"," ","a","g","e"," ","(","%",")">>,
    <<"M","o","r","t","a","l","i","t","y"," ","r","a","t","e"," ","a","t","t","r","i","b","u","t","e","d"," ","t","o"," ","e","x","p","o","s","u","r","e"," ","t","o"," ","u","n","s","a","f","e"," ","W","A","S","H"," ","s","e","r","v","i","c","e","s"," ","(","p","e","r"," ","1","0","0"," ","0","0","0"," ","p","o","p","u","l","a","t","i","o","n",")">>,
    <<"M","o","r","t","a","l","i","t","y"," ","r","a","t","e"," ","d","u","e"," ","t","o"," ","h","o","m","i","c","i","d","e"," ","(","p","e","r"," ","1","0","0"," ","0","0","0"," ","p","o","p","u","l","a","t","i","o","n",")">>,
    <<"M","o","r","t","a","l","i","t","y"," ","r","a","t","e"," ","f","r","o","m"," ","u","n","i","n","t","e","n","t","i","o","n","a","l"," ","p","o","i","s","o","n","i","n","g"," ","(","p","e","r"," ","1","0","0"," ","0","0","0"," ","p","o","p","u","l","a","t","i","o","n",")">>,
    <<"N","e","o","n","a","t","a","l"," ","m","o","r","t","a","l","i","t","y"," ","r","a","t","e"," ","(","p","e","r"," ","1","0","0","0"," ","l","i","v","e"," ","b","i","r","t","h","s",")">>,
    <<"N","e","w"," ","H","I","V"," ","i","n","f","e","c","t","i","o","n","s"," ","(","p","e","r"," ","1","0","0","0"," ","u","n","i","n","f","e","c","t","e","d"," ","p","o","p","u","l","a","t","i","o","n",")">>,
    <<"P","n","e","u","m","o","c","o","c","c","a","l"," ","c","o","n","j","u","g","a","t","e"," ","3","r","d"," ","d","o","s","e"," ","(","P","C","V","3",")"," ","i","m","m","u","n","i","z","a","t","i","o","n"," ","c","o","v","e","r","a","g","e"," "," ","a","m","o","n","g"," ","1","-","y","e","a","r"," ","o","l","d","s"," ","(","%",")">>,
    <<"P","o","p","u","l","a","t","i","o","n"," ","w","i","t","h"," ","h","o","u","s","e","h","o","l","d"," ","e","x","p","e","n","d","i","t","u","r","e","s"," ","o","n"," ","h","e","a","l","t","h"," ",">"," ","1","0","%"," ","o","f"," ","t","o","t","a","l"," ","h","o","u","s","e","h","o","l","d"," ","e","x","p","e","n","d","i","t","u","r","e"," ","o","r"," ","i","n","c","o","m","e"," ","(","%",")">>,
    <<"P","o","p","u","l","a","t","i","o","n"," ","w","i","t","h"," ","h","o","u","s","e","h","o","l","d"," ","e","x","p","e","n","d","i","t","u","r","e","s"," ","o","n"," ","h","e","a","l","t","h"," ",">"," ","2","5","%"," ","o","f"," ","t","o","t","a","l"," ","h","o","u","s","e","h","o","l","d"," ","e","x","p","e","n","d","i","t","u","r","e"," ","o","r"," ","i","n","c","o","m","e"," ","(","%",")">>,
    <<"P","r","e","v","a","l","e","n","c","e"," ","o","f"," ","a","n","a","e","m","i","a"," ","i","n"," ","w","o","m","e","n"," ","o","f"," ","r","e","p","r","o","d","u","c","t","i","v","e"," ","a","g","e"," ","(","1","5","-","4","9"," ","y","e","a","r","s",")"," ","(","%",")">>,
    <<"P","r","e","v","a","l","e","n","c","e"," ","o","f"," ","o","v","e","r","w","e","i","g","h","t"," ","i","n"," ","c","h","i","l","d","r","e","n"," ","u","n","d","e","r"," ","5"," ","(","%",")">>,
    <<"P","r","e","v","a","l","e","n","c","e"," ","o","f"," ","s","t","u","n","t","i","n","g"," ","i","n"," ","c","h","i","l","d","r","e","n"," ","u","n","d","e","r"," ","5"," ","(","%",")">>,
    <<"P","r","e","v","a","l","e","n","c","e"," ","o","f"," ","w","a","s","t","i","n","g"," ","i","n"," ","c","h","i","l","d","r","e","n"," ","u","n","d","e","r"," ","5"," ","(","%",")">>,
    <<"P","r","o","b","a","b","i","l","i","t","y"," ","o","f"," ","d","y","i","n","g"," ","f","r","o","m"," ","a","n","y"," ","o","f"," ","C","V","D",","," ","c","a","n","c","e","r",","," ","d","i","a","b","e","t","e","s",","," ","C","R","D"," ","b","e","t","w","e","e","n"," ","a","g","e"," ","3","0"," ","a","n","d"," ","e","x","a","c","t"," ","a","g","e"," ","7","0"," ","(","%",")">>,
    <<"P","r","o","p","o","r","t","i","o","n"," ","o","f"," ","b","i","r","t","h","s"," ","a","t","t","e","n","d","e","d"," ","b","y"," ","s","k","i","l","l","e","d"," ","h","e","a","l","t","h"," ","p","e","r","s","o","n","n","e","l"," ","(","%",")">>,
    <<"P","r","o","p","o","r","t","i","o","n"," ","o","f"," ","e","v","e","r","-","p","a","r","t","n","e","r","e","d"," ","w","o","m","e","n"," ","a","n","d"," ","g","i","r","l","s"," ","a","g","e","d"," ","1","5","-","4","9"," ","y","e","a","r","s"," ","s","u","b","j","e","c","t","e","d"," ","t","o"," ","p","h","y","s","i","c","a","l"," ","a","n","d","/","o","r"," ","s","e","x","u","a","l"," ","v","i","o","l","e","n","c","e"," ","b","y"," ","a"," ","c","u","r","r","e","n","t"," ","o","r"," ","f","o","r","m","e","r"," ","i","n","t","i","m","a","t","e"," ","p","a","r","t","n","e","r"," ","i","n"," ","t","h","e"," ","p","r","e","v","i","o","u","s"," ","1","2"," ","m","o","n","t","h","s"," ","(","%",")">>,
    <<"P","r","o","p","o","r","t","i","o","n"," ","o","f"," ","e","v","e","r","-","p","a","r","t","n","e","r","e","d"," ","w","o","m","e","n"," ","a","n","d"," ","g","i","r","l","s"," ","a","g","e","d"," ","1","5","-","4","9"," ","y","e","a","r","s"," ","s","u","b","j","e","c","t","e","d"," ","t","o"," ","p","h","y","s","i","c","a","l"," ","a","n","d","/","o","r"," ","s","e","x","u","a","l"," ","v","i","o","l","e","n","c","e"," ","b","y"," ","a"," ","c","u","r","r","e","n","t"," ","o","r"," ","f","o","r","m","e","r"," ","i","n","t","i","m","a","t","e"," ","p","a","r","t","n","e","r"," ","i","n"," ","t","h","e","i","r"," ","l","i","f","e","t","i","m","e"," ","(","%",")">>,
    <<"P","r","o","p","o","r","t","i","o","n"," ","o","f"," ","p","o","p","u","l","a","t","i","o","n"," ","u","s","i","n","g"," ","s","a","f","e","l","y","-","m","a","n","a","g","e","d"," ","d","r","i","n","k","i","n","g","-","w","a","t","e","r"," ","s","e","r","v","i","c","e","s"," ","(","%",")">>,
    <<"P","r","o","p","o","r","t","i","o","n"," ","o","f"," ","p","o","p","u","l","a","t","i","o","n"," ","u","s","i","n","g"," ","s","a","f","e","l","y","-","m","a","n","a","g","e","d"," ","s","a","n","i","t","a","t","i","o","n"," ","s","e","r","v","i","c","e","s"," ","(","%",")">>,
    <<"P","r","o","p","o","r","t","i","o","n"," ","o","f"," ","p","o","p","u","l","a","t","i","o","n"," ","w","i","t","h"," ","p","r","i","m","a","r","y"," ","r","e","l","i","a","n","c","e"," ","o","n"," ","c","l","e","a","n"," ","f","u","e","l","s"," ","a","n","d"," ","t","e","c","h","n","o","l","o","g","y"," ","(","%",")">>,
    <<"P","r","o","p","o","r","t","i","o","n"," ","o","f"," ","s","a","f","e","l","y"," ","t","r","e","a","t","e","d"," ","d","o","m","e","s","t","i","c"," ","w","a","s","t","e","w","a","t","e","r"," ","f","l","o","w","s"," ","(","%",")">>,
    <<"P","r","o","p","o","r","t","i","o","n"," ","o","f"," ","w","o","m","e","n"," ","o","f"," ","r","e","p","r","o","d","u","c","t","i","v","e"," ","a","g","e"," ","w","h","o"," ","h","a","v","e"," ","t","h","e","i","r"," ","n","e","e","d"," ","f","o","r"," ","f","a","m","i","l","y"," ","p","l","a","n","n","i","n","g"," ","s","a","t","i","s","f","i","e","d"," ","w","i","t","h"," ","m","o","d","e","r","n"," ","m","e","t","h","o","d","s"," ","(","%",")">>,
    <<"R","o","a","d"," ","t","r","a","f","f","i","c"," ","m","o","r","t","a","l","i","t","y"," ","r","a","t","e"," ","(","p","e","r"," ","1","0","0"," ","0","0","0"," ","p","o","p","u","l","a","t","i","o","n",")">>,
    <<"S","u","i","c","i","d","e"," ","m","o","r","t","a","l","i","t","y"," ","r","a","t","e"," ","(","p","e","r"," ","1","0","0"," ","0","0","0"," ","p","o","p","u","l","a","t","i","o","n",")">>,
    <<"T","o","t","a","l"," ","a","l","c","o","h","o","l"," ","p","e","r"," ","c","a","p","i","t","a"," ","(",">="," ","1","5"," ","y","e","a","r","s"," ","o","f"," ","a","g","e",")"," ","c","o","n","s","u","m","p","t","i","o","n"," ","(","l","i","t","r","e","s"," ","o","f"," ","p","u","r","e"," ","a","l","c","o","h","o","l",")">>,
    <<"T","u","b","e","r","c","u","l","o","s","i","s"," ","i","n","c","i","d","e","n","c","e"," ","(","p","e","r"," ","1","0","0"," ","0","0","0"," ","p","o","p","u","l","a","t","i","o","n",")">>,
    <<"U","H","C",":"," ","S","e","r","v","i","c","e"," ","c","o","v","e","r","a","g","e"," ","i","n","d","e","x">>,
    <<"U","n","d","e","r","-","f","i","v","e"," ","m","o","r","t","a","l","i","t","y"," ","r","a","t","e"," ","(","p","e","r"," ","1","0","0","0"," ","l","i","v","e"," ","b","i","r","t","h","s",")">> >>

\* `for indicator in all_indicators`
wanted_lines(indicators) ==
    for_each(LAMBDA new_data, n :
                 IF dict_has(indicators, all_indicators[n])
                 THEN new_data \o <<" "," "," "," "," "," "," "," "," "," ","'">> \o all_indicators[n] \o <<"'", ":", " ">>
                          \o FloatRepr(dict_get(indicators, all_indicators[n])) \o <<",", "\n">>
                 ELSE new_data \o <<" "," "," "," "," "," "," "," "," "," ","/","/"," ","'">> \o all_indicators[n] \o <<"'",":"," ","N","O"," ","C","S","V"," ","D","A","T","A",",","\n">>,
             <<>>, 1, Len(all_indicators))

\* new_data of write_complete_replacement
complete_data(cd) ==
    for_each(LAMBDA new_data, n :
                 IF ~dict_has(cd, target_countries[n]) THEN new_data
                 ELSE new_data \o <<" "," "," "," "," "," ","'">> \o target_countries[n] \o <<"'",":"," ","{","\n">>
                          \o <<" "," "," "," "," "," "," "," ","n","a","m","e",":"," ","'">> \o dict_get(cd, target_countries[n]).name \o <<"'", ",", "\n">>
                          \o <<" "," "," "," "," "," "," "," ","i","n","d","i","c","a","t","o","r","s",":"," ","{","\n">>
                          \o wanted_lines(dict_get(cd, target_countries[n]).indicators)
                          \o <<" "," "," "," "," "," "," "," ","}","\n">>
                          \o <<" "," "," "," "," "," ","}",",","\n">>,
             DATA_START \o <<"\n">>, 1, Len(target_countries))
        \o <<" ", " ", " ", " ">>

\* the component after write_complete_replacement: unchanged where it lacks a boundary
complete_replacement(component, cd) ==
    the({IF ~start_match.ok \/ ~end_match.ok THEN component
         ELSE SubSeq(component, 1, start_match.start - 1) \o complete_data(cd)
                  \o SubSeq(component, end_match.start, Len(component))
            : start_match \in {re_search(start_pattern, component)},
              end_match \in {re_search(end_pattern, component)}})

NO_BOUNDARIES == "Could not find data boundaries"
COMPLETED == "Complete data replacement completed - all countries now use authentic CSV values"

\* the last line write_complete_replacement prints
complete_report(component) ==
    IF re_search(start_pattern, component).ok /\ re_search(end_pattern, component).ok
    THEN <<COMPLETED>> ELSE <<NO_BOUNDARIES>>

-----------------------------------------------------------------------------
(* One run of a splice script: a mass replacement, implement_corrected_aggregates *)
(* or write_complete_replacement                                                  *)

LIFE_EXPECTANCY == <<"L","i","f","e"," ","e","x","p","e","c","t","a","n","c","y"," ","a","t"," ","b","i","r","t","h"," ","(","y","e","a","r","s",")">>

\* the CSV of implement_corrected_aggregates: empty, Kenya one indicator short
\* of the threshold, Kenya meeting it
SpliceCsvs == {
    <<>>,
    table_rows(KENYA, KEN, MIN_AGGREGATES - 2, IndicatorNo(MIN_AGGREGATES), ONE),
    table_rows(KENYA, KEN, MIN_AGGREGATES - 1, IndicatorNo(MIN_AGGREGATES), <<"2", ".", "5">>) }

\* the CSV of write_complete_replacement: empty, a target country with a value
\* and without, and a country that is no target
WriteCsvs == {
    <<>>,
    <<Row(KENYA, KEN, LIFE_EXPECTANCY, NA, <<"2", ".", "5">>)>>,
    <<Row(KENYA, KEN, LIFE_EXPECTANCY, NA, NO_DATA), Row(KENYA, KEN, IndicatorNo(1), NA, <<" ">>)>>,
    <<Row(TOGO, TGO, LIFE_EXPECTANCY, NA, ONE), Row(KENYA, KEN, LIFE_EXPECTANCY, NA, ONE)>> }

OLD_DATA == DATA_START \o <<"\n"," "," "," "," "," "," ","'","T","G","O","'",":"," ","{","}",",","\n"," "," "," "," ">>
SCORES == <<"\n","\n","/","/"," ","C","a","l","c","u","l","a","t","e"," ","s","c","o","r","e","s","\n","c","o","n","s","t"," ","x"," ","="," ","1",";","\n">>

\* the component of write_complete_replacement: with both boundaries, without
\* the start, without the end, with neither
AuthenticComponents == {
    HEAD \o OLD_DATA \o <<"}", ";">> \o SCORES,
    HEAD \o <<"}", ";">> \o SCORES,
    HEAD \o OLD_DATA \o <<"}", ";", "\n">>,
    HEAD \o TAIL }

SpliceInit ==
    /\ \/ /\ pc = "replace"
          /\ rows = <<>>
          /\ replacement_file \in ReplacementFiles
          /\ content \in SpliceComponents
       \/ /\ pc = "implement"
          /\ rows \in SpliceCsvs
          /\ replacement_file = NO_FILE
          /\ content \in SpliceComponents
       \/ /\ pc = "write"
          /\ rows \in WriteCsvs
          /\ replacement_file = NO_FILE
          /\ content \in AuthenticComponents
    /\ country_data = <<>>
    /\ indicator_candidates = <<>>
    /\ all_countries = <<>>
    /\ sanitized_countries = <<>>
    /\ final_data = <<>>
    /\ csv_data = <<>>
    /\ escaped_result = <<>>
    /\ sanitized_result = <<>>
    /\ raw_text = <<>>
    /\ escaped = <<>>
    /\ replacement_code = <<>>
    /\ impl_data = <<>>
    /\ results = <<>>
    /\ printed = <<>>
    /\ sanitized_name = <<>>
    /\ safe_countries = <<>>
    /\ additional_countries = <<>>
    /\ authentic_data = <<>>
    /\ complete_country_data = <<>>
    /\ csv_available = <<>>
    /\ csv_missing = <<>>
    /\ countries_data = <<>>
    /\ country_scores = <<>>

\* perform_all_countries_replacement
PerformAllCountriesReplacement ==
    /\ pc = "replace"
    /\ \E all_countries_data \in {read_all_countries_data(replacement_file)} :
           /\ content' = implemented(content, all_countries_data)
           /\ printed' = replacement_report(content, all_countries_data)
    /\ pc' = "replaced"
    /\ UNCHANGED <<extractVars, raw_text, escaped, replacement_code, impl_data, results,
                   replacement_file, sanitized_name, safe_countries, additional_countries,
                   authentic_data, complete_country_data, csv_available, csv_missing,
                   countries_data, country_scores>>

\* write_complete_replacement
WriteCompleteReplacement ==
    /\ pc = "write"
    /\ csv_data' = extract_csv_data(rows)
    /\ content' = complete_replacement(content, csv_data')
    /\ printed' = complete_report(content)
    /\ pc' = "written"
    /\ UNCHANGED <<rows, country_data, indicator_candidates, all_countries, sanitized_countries,
                   final_data, escaped_result, sanitized_result, raw_text, escaped,
                   replacement_code, impl_data, results,
                   replacement_file, sanitized_name, safe_countries, additional_countries,
                   authentic_data, complete_country_data, csv_available, csv_missing,
                   countries_data, country_scores>>

NextSplice == PerformAllCountriesReplacement \/ Implement \/ WriteCompleteReplacement
SpecSplice == SpliceInit /\ [][NextSplice]_vars

-----------------------------------------------------------------------------
(* Properties of the splice *)

\* the step is a successful splice of the countries block
splices == /\ pc \in {"replace", "implement"}
           /\ Len(printed') > 0
           /\ printed'[1] \in {REPLACED, IMPLEMENTED}

\* the text before the match and the text after it are in the new component
\* what they were in the old one
outside_unchanged(old, new, m) ==
    /\ Len(new) >= (m.start - 1) + (Len(old) - m.end + 1)
    /\ SubSeq(new, 1, m.start - 1) = SubSeq(old, 1, m.start - 1)
    /\ SubSeq(new, Len(new) - (Len(old) - m.end), Len(new)) = SubSeq(old, m.end, Len(old))

\* C11: a successful splice replaces only the one matched countries block: the
\* text of the component before the start of the match and after its end is
\* unchanged, another occurrence of the matched text included.
C11_OnlyMatchedBlockReplaced ==
    [][splices => \A m \in {re_search(block_pattern, content)} :
                      outside_unchanged(content, content', m)]_vars

\* the same, for a component in which the matched text occurs once
C11_OnlyBlockReplacedWhenItOccursOnce ==
    [][splices => \A m \in {re_search(block_pattern, content)} :
                      count_of(content, group0(content, m)) = 1
                          => outside_unchanged(content, content', m)]_vars

\* the component has both boundaries write_complete_replacement looks for
has_boundaries(component) ==
    /\ Contains(component, DATA_START)
    /\ \E p \in 1..Len(component), q \in 1..Len(component) :
           /\ MatchesAt(component, <<"}", ";">>, p)
           /\ q >= p + 2
           /\ \A i \in (p + 2)..(q - 1) : IsSpace(component[i])
           /\ MatchesAt(component, <<"/", "/", " ", "C", "a", "l", "c", "u", "l", "a", "t", "e">>, q)

\* the component has a countries block
has_block(component) ==
    \E p \in 1..Len(component) :
        MatchesAt(component, BLOCK_OPEN, p) /\ Find(component, BLOCK_CLOSE, p + Len(BLOCK_OPEN)) # 0

\* the run of the script cannot splice: the component has no place for the
\* data, or there is no data
cannot_splice ==
    \/ pc = "replace" /\ (~has_block(content) \/ read_all_countries_data(replacement_file) = <<>>)
    \/ pc = "implement" /\ (~has_block(content) \/ replacement_code' = <<>>)
    \/ pc = "write" /\ ~has_boundaries(content)

FAILURES == {NO_DATA_AVAILABLE, NO_PATTERN, NO_DATA_EXTRACTED, NO_BOUNDARIES}

-----------------------------------------------------------------------------
(* safe_countries_expansion.py: extract_safe_countries_data and generate_safe_expansion *)

\* the names excluded; the first is written in the source with the two
\* characters A-tilde and acute accent where the name has an o-circumflex
problematic_names == {
    <<"C","A~","acute","t","e"," ","d","'","I","v","o","i","r","e">>,
    <<"D","e","m","o","c","r","a","t","i","c"," ","P","e","o","p","l","e","'","s"," ","R","e","p","u","b","l","i","c"," ","o","f"," ","K","o","r","e","a">>,
    <<"L","a","o"," ","P","e","o","p","l","e","'","s"," ","D","e","m","o","c","r","a","t","i","c"," ","R","e","p","u","b","l","i","c">>,
    <<"C","h","i","n","a",","," ","H","o","n","g"," ","K","o","n","g"," ","S","A","R">>,
    <<"C","h","i","n","a",","," ","M","a","c","a","o"," ","S","A","R">> }

current_countries == {
    <<"A","R","G">>,
    <<"A","U","S">>,
    <<"B","R","A">>,
    <<"C","A","N">>,
    <<"E","T","H">>,
    <<"D","E","U">>,
    <<"I","D","N">>,
    <<"I","R","N">>,
    <<"I","T","A">>,
    <<"K","E","N">>,
    <<"M","E","X">>,
    <<"N","G","A">>,
    <<"R","U","S">>,
    <<"Z","A","F">>,
    <<"U","S","A">>,
    <<"C","H","N">>,
    <<"F","R","A">> }

MIN_SAFE == 30
MAX_ADDITIONAL == 50

\* extract_safe_countries_data: the body of `for row in reader`
fold_safe(cd, row) ==
    IF row.Location \in problematic_names THEN cd
    ELSE fold_plain(cd, row, row.Location)

\* extract_safe_countries_data
extract_safe_countries_data(csv) ==
    substantial_countries(for_each(LAMBDA cd, n : fold_safe(cd, csv[n]), <<>>, 1, Len(csv)),
                          MIN_SAFE)

not_above_cap(count) == count <= MAX_ADDITIONAL

\* `count < 50`
below_cap(count) == count < MAX_ADDITIONAL

\* additional_countries after `for code, data in safe_countries.items()`; count
\* is the number of countries taken
additional(safe) ==
    for_each(LAMBDA taken, n :
                 IF safe[n].k \notin current_countries /\ below_cap(Len(taken))
                 THEN Append(taken, safe[n]) ELSE taken,
             <<>>, 1, Len(safe))

\* `for indicator, value in data['indicators'].items()`
safe_lines(indicators) ==
    for_each(LAMBDA code, n :
                 code \o <<" "," "," "," "," "," "," "," ","'">> \o str_replace(indicators[n].k, <<"'">>, <<"\\", "'">>) \o <<"'", ":", " ">>
                      \o FloatRepr(indicators[n].v) \o <<",", "\n">>,
             <<>>, 1, Len(indicators))

\* replacement_code of generate_safe_expansion
safe_expansion(countries) ==
    for_each(LAMBDA code, n :
                 code \o <<" "," "," "," ","'">> \o countries[n].k \o <<"'",":"," ","{","\n">>
                      \o <<" "," "," "," "," "," ","n","a","m","e",":"," ","'">> \o countries[n].v.name \o <<"'", ",", "\n">>
                      \o <<" "," "," "," "," "," ","i","n","d","i","c","a","t","o","r","s",":"," ","{","\n">>
                      \o safe_lines(countries[n].v.indicators)
                      \o <<" "," "," "," "," "," ","}","\n">>
                      \o <<" "," "," "," ","}",",","\n">>,
             <<>>, 1, Len(countries))

\* the head of safe_countries_expansion.txt
SAFE_HEAD == <<"/","/"," ","S","A","F","E"," ","C","O","U","N","T","R","I","E","S"," ","E","X","P","A","N","S","I","O","N"," ","-"," ","5","0"," ","A","D","D","I","T","I","O","N","A","L"," ","C","O","U","N","T","R","I","E","S","\n","/","/"," ","Z","e","r","o"," ","t","o","l","e","r","a","n","c","e"," ","-"," ","o","n","l","y"," ","e","x","a","c","t"," ","C","S","V"," ","v","a","l","u","e","s"," ","i","n","c","l","u","d","e","d","\n","\n">>

\* the n-th indicator name of a safe-expansion run
SafeIndicator(n) == <<"i">> \o digits_of(n)
\* the code and the name of the n-th country that is eligible
SafeCode(n) == <<"X", UpperSeq[((n - 1) \div 26) + 1], UpperSeq[((n - 1) % 26) + 1]>>
SafeName(n) == <<"L", "a", "n", "d", " ">> \o SafeCode(n)

\* count rows of one country, an indicator each
country_rows(name, code, count) ==
    [i \in 1..count |-> Row(name, code, SafeIndicator(i), NA, ONE)]

\* the rows of the first m eligible countries
safe_rows(m) ==
    for_each(LAMBDA csv, n : csv \o country_rows(SafeName(n), SafeCode(n), MIN_SAFE), <<>>, 1, m)

TURKIYE == <<"T","u:","r","k","i","y","e">>

\* one more country, or none: a current one, one an indicator short, one whose
\* name has a quote, Cote d'Ivoire as the CSV spells it, a name of the list of
\* problematic names, a name with a letter that is not ASCII, a name with a comma
Specials == {
    <<>>,
    country_rows(KENYA, KEN, MIN_SAFE),
    country_rows(TOGO, TGO, MIN_SAFE - 1),
    country_rows(<<"a", "'", "b">>, <<"Q", "A", "B">>, MIN_SAFE),
    country_rows(COTE_DIVOIRE, CIV, MIN_SAFE),
    country_rows(LAO, <<"L", "A", "O">>, MIN_SAFE),
    country_rows(TURKIYE, <<"T", "U", "R">>, MIN_SAFE),
    country_rows(<<"a", ",", " ", "b">>, <<"C", "A", "B">>, MIN_SAFE) }

\* how many eligible countries the CSV has
SafeCounts == {0, 1, MAX_ADDITIONAL - 1, MAX_ADDITIONAL, MAX_ADDITIONAL + 1}

\* the special country before the eligible ones or after them, and Uganda
\* with a first row without data before them and its data after them
SafeCsvs ==
    {special \o safe_rows(m) : special \in Specials, m \in SafeCounts}
    \cup {safe_rows(m) \o special : special \in Specials, m \in SafeCounts}
    \cup {<<Row(UGANDA, UGA, SafeIndicator(1), NA, NO_DATA)>> \o safe_rows(m)
              \o country_rows(UGANDA, UGA, MIN_SAFE) : m \in SafeCounts}

SafeInit ==
    /\ pc = "expand"
    /\ rows \in SafeCsvs
    /\ country_data = <<>>
    /\ indicator_candidates = <<>>
    /\ all_countries = <<>>
    /\ sanitized_countries = <<>>
    /\ final_data = <<>>
    /\ csv_data = <<>>
    /\ escaped_result = <<>>
    /\ sanitized_result = <<>>
    /\ NoText
    /\ NoMore

\* generate_safe_expansion: nothing is generated when no country is safe
GenerateSafeExpansion ==
    /\ pc = "expand"
    /\ safe_countries' = extract_safe_countries_data(rows)
    /\ additional_countries' = additional(safe_countries')
    /\ replacement_code' = safe_expansion(additional_countries')
    /\ replacement_file' = IF safe_countries' = <<>> THEN replacement_file
                           ELSE [exists |-> TRUE, text |-> SAFE_HEAD \o replacement_code']
    /\ pc' = "expanded"
    /\ UNCHANGED <<extractVars, raw_text, escaped, content, impl_data, results,
                   printed, sanitized_name, authentic_data,
                   complete_country_data, csv_available, csv_missing,
                   countries_data, country_scores>>

NextSafe == GenerateSafeExpansion
SpecSafe == SafeInit /\ [][NextSafe]_vars

-----------------------------------------------------------------------------
(* Properties of the safe expansion *)

\* letters that are not ASCII, as this model writes them
NonAscii == Accented \cup {"u:", "A~", "acute", "mu", ">="}

\* no single quote, no comma and no letter that is not ASCII in the name
has_no_special_character(name) ==
    \A i \in 1..Len(name) : name[i] \notin {"'", ","} \cup NonAscii

\* no quote of the body of a literal is without a backslash before it
no_bare_quote(body) ==
    \A i \in 1..Len(body) : body[i] = "'" => (i > 1 /\ body[i - 1] = "\\")

\* C13: every country extract_safe_countries_data returns has a name without a
\* special character (single quote, comma, letter that is not ASCII), and no
\* `name: '...'` literal generate_safe_expansion writes has an unescaped quote.
C13_OnlySafeNames ==
    pc = "expanded" =>
        /\ \A e \in SeqRange(safe_countries) : has_no_special_character(e.v.name)
        /\ \A body \in name_literals(replacement_code) : no_bare_quote(body)

\* what the filter does establish: no country returned has one of the listed
\* names, as the source spells them
C13_NoListedName ==
    pc = "expanded" => \A e \in SeqRange(safe_countries) : e.v.name \notin problematic_names

\* for each row read, whether its value reaches the table of the safe extraction
safe_row_facts ==
    [i \in 1..Len(rows) |->
        /\ rows[i].Location \notin problematic_names
        /\ ~is_regional(rows[i].Location)
        /\ valid_code(rows[i].LocationCode)
        /\ has_data(rows[i].NumericValue)
        /\ float(rows[i].NumericValue).ok]

\* the countries that may be added: not current, and with at least 30
\* indicators that have a value
eligible_codes(facts) ==
    {code \in {rows[i].LocationCode : i \in 1..Len(rows)} :
        /\ code \notin current_countries
        /\ Cardinality({rows[i].IndicatorName :
                           i \in {j \in 1..Len(rows) : facts[j] /\ rows[j].LocationCode = code}})
               >= 30}

\* the row in which the country first appears
first_appearance(code) == SetMin({i \in 1..Len(rows) : rows[i].LocationCode = code})

\* C14: generate_safe_expansion emits at most 50 countries, none of them a
\* current country, each with at least 30 indicators; where 50 or more
\* countries are eligible it emits exactly the 50 that appear first in the CSV,
\* in the order in which they appear.
C14_FirstFiftyEligible ==
    pc = "expanded" =>
        /\ Len(additional_countries) <= 50
        /\ count_of(replacement_code, NAME_KEY) = Len(additional_countries)
        /\ \A e \in SeqRange(additional_countries) :
               /\ e.k \notin current_countries
               /\ Len(e.v.indicators) >= 30
               /\ Cardinality(dict_keys(e.v.indicators)) = Len(e.v.indicators)
        /\ \A eligible \in {eligible_codes(safe_row_facts)} :
               Cardinality(eligible) >= 50 =>
                   \A first \in {[code \in eligible |-> first_appearance(code)]} :
                       /\ Len(additional_countries) = 50
                       /\ dict_keys(additional_countries)
                              = {c \in eligible :
                                    Cardinality({d \in eligible : first[d] < first[c]}) < 50}
                       /\ \A i, j \in 1..Len(additional_countries) :
                              i < j => first[additional_countries[i].k] < first[additional_countries[j].k]

\* 51 countries are eligible, the first of them with a first row that has no
\* value, and the last of them is the one left out
C14_Witness ==
    /\ pc = "expanded"
    /\ Cardinality(eligible_codes(safe_row_facts)) = 51
    /\ rows[1].NumericValue = NO_DATA
    /\ additional_countries[1].k = rows[1].LocationCode
    /\ Len(additional_countries) = 50
    /\ SafeCode(50) \notin dict_keys(additional_countries)
    /\ Len(safe_countries) = 51

-----------------------------------------------------------------------------
(* sanitize_country_name on its own *)

\* the characters the names are written with: ASCII letters, a quote, a blank,
\* letters the replacements list, and letters it does not list
NameAlphabet == {"a", "o", "T", "'", " ", "o^", "e'", "u:", "A~"}

Names == UNION {[1..n -> NameAlphabet] : n \in 0..MaxText} \cup {COTE_DIVOIRE, TURKIYE}

SanitizeInit ==
    /\ pc = "sanitize"
    /\ rows = <<>>
    /\ country_data = <<>>
    /\ indicator_candidates = <<>>
    /\ all_countries = <<>>
    /\ sanitized_countries = <<>>
    /\ final_data = <<>>
    /\ csv_data = <<>>
    /\ escaped_result = <<>>
    /\ sanitized_result = <<>>
    /\ raw_text \in Names
    /\ escaped = <<>>
    /\ replacement_code = <<>>
    /\ content = <<>>
    /\ impl_data = <<>>
    /\ results = <<>>
    /\ NoMore

\* sanitize_country_name(name)
Sanitize ==
    /\ pc = "sanitize"
    /\ sanitized_name' = sanitize_country_name(raw_text)
    /\ pc' = "sanitized"
    /\ UNCHANGED <<extractVars, textVars, replacement_file, printed, safe_countries,
                   additional_countries, authentic_data, complete_country_data, csv_available, csv_missing,
                   countries_data, country_scores>>

\* sanitize_country_name applied to its own result
SanitizeAgain ==
    /\ pc = "sanitized"
    /\ raw_text' = sanitized_name
    /\ sanitized_name' = sanitize_country_name(sanitized_name)
    /\ pc' = "resanitized"
    /\ UNCHANGED <<extractVars, escaped, replacement_code, content, impl_data, results,
                   replacement_file, printed, safe_countries,
                   additional_countries, authentic_data, complete_country_data, csv_available, csv_missing,
                   countries_data, country_scores>>

NextSanitize == Sanitize \/ SanitizeAgain
SpecSanitize == SanitizeInit /\ [][NextSanitize]_vars

\* the result is as long as the name and every ASCII character is where it was
ascii_kept(name, result) ==
    /\ Len(result) = Len(name)
    /\ \A i \in 1..Len(name) : name[i] \notin NonAscii => result[i] = name[i]

\* C16: the result of sanitize_country_name has no accented or otherwise
\* non-ASCII letter, leaves every ASCII character unchanged and in place, is as
\* long as the name, and sanitizing it again gives the same result.
C16_SanitizedIsAscii ==
    /\ pc \in {"sanitized", "resanitized"} =>
           /\ \A i \in 1..Len(sanitized_name) : sanitized_name[i] \notin NonAscii
           /\ ascii_kept(raw_text, sanitized_name)
    /\ pc = "resanitized" => sanitized_name = raw_text

\* what the replacements do establish: the result has none of the letters they
\* list, every other character is unchanged and in place, and a second pass
\* changes nothing
C16_ListedLettersReplaced ==
    /\ pc \in {"sanitized", "resanitized"} =>
           /\ \A i \in 1..Len(sanitized_name) :
                  sanitized_name[i] \notin {replacements[j][1] : j \in 1..Len(replacements)}
           /\ ascii_kept(raw_text, sanitized_name)
           /\ \A i \in 1..Len(raw_text) :
                  raw_text[i] \in NonAscii \ Accented => sanitized_name[i] = raw_text[i]
    /\ pc = "resanitized" => sanitized_name = raw_text

-----------------------------------------------------------------------------
(* zero_discrepancy_replacement.py: extract_authentic_csv_data *)

\* Location -> code
country_mappings == <<
    [k |-> <<"U","n","i","t","e","d"," ","S","t","a","t","e","s"," ","o","f"," ","A","m","e","r","i","c","a">>, v |-> <<"U","S","A">>],
    [k |-> <<"C","h","i","n","a">>, v |-> <<"C","H","N">>],
    [k |-> <<"I","n","d","i","a">>, v |-> <<"I","N","D">>],
    [k |-> <<"I","n","d","o","n","e","s","i","a">>, v |-> <<"I","D","N">>],
    [k |-> <<"P","a","k","i","s","t","a","n">>, v |-> <<"P","A","K">>],
    [k |-> <<"B","a","n","g","l","a","d","e","s","h">>, v |-> <<"B","G","D">>],
    [k |-> <<"N","i","g","e","r","i","a">>, v |-> <<"N","G","A">>],
    [k |-> <<"B","r","a","z","i","l">>, v |-> <<"B","R","A">>],
    [k |-> <<"R","u","s","s","i","a","n"," ","F","e","d","e","r","a","t","i","o","n">>, v |-> <<"R","U","S">>],
    [k |-> <<"M","e","x","i","c","o">>, v |-> <<"M","E","X">>],
    [k |-> <<"J","a","p","a","n">>, v |-> <<"J","P","N">>],
    [k |-> <<"P","h","i","l","i","p","p","i","n","e","s">>, v |-> <<"P","H","L">>],
    [k |-> <<"E","t","h","i","o","p","i","a">>, v |-> <<"E","T","H">>],
    [k |-> <<"V","i","e","t"," ","N","a","m">>, v |-> <<"V","N","M">>],
    [k |-> <<"E","g","y","p","t">>, v |-> <<"E","G","Y">>],
    [k |-> <<"T","u","r","k","e","y">>, v |-> <<"T","U","R">>],
    [k |-> <<"G","e","r","m","a","n","y">>, v |-> <<"D","E","U">>],
    [k |-> <<"I","s","l","a","m","i","c"," ","R","e","p","u","b","l","i","c"," ","o","f"," ","I","r","a","n">>, v |-> <<"I","R","N">>],
    [k |-> <<"T","h","a","i","l","a","n","d">>, v |-> <<"T","H","A">>],
    [k |-> <<"U","n","i","t","e","d"," ","K","i","n","g","d","o","m"," ","o","f"," ","G","r","e","a","t"," ","B","r","i","t","a","i","n"," ","a","n","d"," ","N","o","r","t","h","e","r","n"," ","I","r","e","l","a","n","d">>, v |-> <<"G","B","R">>],
    [k |-> <<"F","r","a","n","c","e">>, v |-> <<"F","R","A">>],
    [k |-> <<"I","t","a","l","y">>, v |-> <<"I","T","A">>],
    [k |-> <<"T","a","n","z","a","n","i","a">>, v |-> <<"T","Z","A">>],
    [k |-> <<"S","o","u","t","h"," ","A","f","r","i","c","a">>, v |-> <<"Z","A","F">>],
    [k |-> <<"M","y","a","n","m","a","r">>, v |-> <<"M","M","R">>],
    [k |-> <<"K","e","n","y","a">>, v |-> <<"K","E","N">>],
    [k |-> <<"R","e","p","u","b","l","i","c"," ","o","f"," ","K","o","r","e","a">>, v |-> <<"K","O","R">>],
    [k |-> <<"C","o","l","o","m","b","i","a">>, v |-> <<"C","O","L">>],
    [k |-> <<"S","p","a","i","n">>, v |-> <<"E","S","P">>],
    [k |-> <<"U","g","a","n","d","a">>, v |-> <<"U","G","A">>],
    [k |-> <<"A","r","g","e","n","t","i","n","a">>, v |-> <<"A","R","G">>],
    [k |-> <<"A","l","g","e","r","i","a">>, v |-> <<"D","Z","A">>],
    [k |-> <<"S","u","d","a","n">>, v |-> <<"S","D","N">>],
    [k |-> <<"U","k","r","a","i","n","e">>, v |-> <<"U","K","R">>],
    [k |-> <<"I","r","a","q">>, v |-> <<"I","R","Q">>],
    [k |-> <<"A","f","g","h","a","n","i","s","t","a","n">>, v |-> <<"A","F","G">>],
    [k |-> <<"P","o","l","a","n","d">>, v |-> <<"P","O","L">>],
    [k |-> <<"C","a","n","a","d","a">>, v |-> <<"C","A","N">>],
    [k |-> <<"M","o","r","o","c","c","o">>, v |-> <<"M","A","R">>],
    [k |-> <<"S","a","u","d","i"," ","A","r","a","b","i","a">>, v |-> <<"S","A","U">>],
    [k |-> <<"U","z","b","e","k","i","s","t","a","n">>, v |-> <<"U","Z","B">>],
    [k |-> <<"P","e","r","u">>, v |-> <<"P","E","R">>],
    [k |-> <<"A","n","g","o","l","a">>, v |-> <<"A","G","O">>],
    [k |-> <<"M","a","l","a","y","s","i","a">>, v |-> <<"M","Y","S">>],
    [k |-> <<"M","o","z","a","m","b","i","q","u","e">>, v |-> <<"M","O","Z">>],
    [k |-> <<"G","h","a","n","a">>, v |-> <<"G","H","A">>],
    [k |-> <<"Y","e","m","e","n">>, v |-> <<"Y","E","M">>],
    [k |-> <<"N","e","p","a","l">>, v |-> <<"N","P","L">>],
    [k |-> <<"V","e","n","e","z","u","e","l","a">>, v |-> <<"V","E","N">>],
    [k |-> <<"M","a","d","a","g","a","s","c","a","r">>, v |-> <<"M","D","G">>],
    [k |-> <<"C","a","m","e","r","o","o","n">>, v |-> <<"C","M","R">>],
    [k |-> <<"N","i","g","e","r">>, v |-> <<"N","E","R">>],
    [k |-> <<"A","u","s","t","r","a","l","i","a">>, v |-> <<"A","U","S">>],
    [k |-> <<"D","e","m","o","c","r","a","t","i","c"," ","P","e","o","p","l","e","'","s"," ","R","e","p","u","b","l","i","c"," ","o","f"," ","K","o","r","e","a">>, v |-> <<"P","R","K">>],
    [k |-> <<"S","r","i"," ","L","a","n","k","a">>, v |-> <<"L","K","A">>],
    [k |-> <<"B","u","r","k","i","n","a"," ","F","a","s","o">>, v |-> <<"B","F","A">>],
    [k |-> <<"M","a","l","i">>, v |-> <<"M","L","I">>],
    [k |-> <<"R","o","m","a","n","i","a">>, v |-> <<"R","O","U">>],
    [k |-> <<"M","a","l","a","w","i">>, v |-> <<"M","W","I">>],
    [k |-> <<"C","h","i","l","e">>, v |-> <<"C","H","L">>],
    [k |-> <<"K","a","z","a","k","h","s","t","a","n">>, v |-> <<"K","A","Z">>],
    [k |-> <<"Z","a","m","b","i","a">>, v |-> <<"Z","M","B">>],
    [k |-> <<"G","u","a","t","e","m","a","l","a">>, v |-> <<"G","T","M">>],
    [k |-> <<"E","c","u","a","d","o","r">>, v |-> <<"E","C","U">>],
    [k |-> <<"S","y","r","i","a">>, v |-> <<"S","Y","R">>],
    [k |-> <<"N","e","t","h","e","r","l","a","n","d","s">>, v |-> <<"N","L","D">>],
    [k |-> <<"S","e","n","e","g","a","l">>, v |-> <<"S","E","N">>],
    [k |-> <<"C","a","m","b","o","d","i","a">>, v |-> <<"K","H","M">>],
    [k |-> <<"C","h","a","d">>, v |-> <<"T","C","D">>],
    [k |-> <<"S","o","m","a","l","i","a">>, v |-> <<"S","O","M">>],
    [k |-> <<"Z","i","m","b","a","b","w","e">>, v |-> <<"Z","W","E">>],
    [k |-> <<"G","u","i","n","e","a">>, v |-> <<"G","I","N">>],
    [k |-> <<"R","w","a","n","d","a">>, v |-> <<"R","W","A">>],
    [k |-> <<"B","e","n","i","n">>, v |-> <<"B","E","N">>],
    [k |-> <<"B","u","r","u","n","d","i">>, v |-> <<"B","D","I">>],
    [k |-> <<"T","u","n","i","s","i","a">>, v |-> <<"T","U","N">>],
    [k |-> <<"B","o","l","i","v","i","a">>, v |-> <<"B","O","L">>],
    [k |-> <<"B","e","l","g","i","u","m">>, v |-> <<"B","E","L">>],
    [k |-> <<"H","a","i","t","i">>, v |-> <<"H","T","I">>],
    [k |-> <<"C","u","b","a">>, v |-> <<"C","U","B">>],
    [k |-> <<"S","o","u","t","h"," ","S","u","d","a","n">>, v |-> <<"S","S","D">>],
    [k |-> <<"D","o","m","i","n","i","c","a","n"," ","R","e","p","u","b","l","i","c">>, v |-> <<"D","O","M">>],
    [k |-> <<"C","z","e","c","h"," ","R","e","p","u","b","l","i","c">>, v |-> <<"C","Z","E">>],
    [k |-> <<"G","r","e","e","c","e">>, v |-> <<"G","R","C">>],
    [k |-> <<"J","o","r","d","a","n">>, v |-> <<"J","O","R">>],
    [k |-> <<"P","o","r","t","u","g","a","l">>, v |-> <<"P","R","T">>],
    [k |-> <<"A","z","e","r","b","a","i","j","a","n">>, v |-> <<"A","Z","E">>],
    [k |-> <<"S","w","e","d","e","n">>, v |-> <<"S","W","E">>],
    [k |-> <<"H","o","n","d","u","r","a","s">>, v |-> <<"H","N","D">>],
    [k |-> <<"U","n","i","t","e","d"," ","A","r","a","b"," ","E","m","i","r","a","t","e","s">>, v |-> <<"A","R","E">>],
    [k |-> <<"H","u","n","g","a","r","y">>, v |-> <<"H","U","N">>],
    [k |-> <<"T","a","j","i","k","i","s","t","a","n">>, v |-> <<"T","J","K">>],
    [k |-> <<"B","e","l","a","r","u","s">>, v |-> <<"B","L","R">>],
    [k |-> <<"A","u","s","t","r","i","a">>, v |-> <<"A","U","T">>],
    [k |-> <<"P","a","p","u","a"," ","N","e","w"," ","G","u","i","n","e","a">>, v |-> <<"P","N","G">>],
    [k |-> <<"S","e","r","b","i","a">>, v |-> <<"S","R","B">>],
    [k |-> <<"I","s","r","a","e","l">>, v |-> <<"I","S","R">>],
    [k |-> <<"S","w","i","t","z","e","r","l","a","n","d">>, v |-> <<"C","H","E">>],
    [k |-> <<"T","o","g","o">>, v |-> <<"T","G","O">>],
    [k |-> <<"S","i","e","r","r","a"," ","L","e","o","n","e">>, v |-> <<"S","L","E">>],
    [k |-> <<"L","a","o","s">>, v |-> <<"L","A","O">>],
    [k |-> <<"P","a","r","a","g","u","a","y">>, v |-> <<"P","R","Y">>],
    [k |-> <<"L","i","b","y","a">>, v |-> <<"L","B","Y">>],
    [k |-> <<"B","u","l","g","a","r","i","a">>, v |-> <<"B","G","R">>],
    [k |-> <<"L","e","b","a","n","o","n">>, v |-> <<"L","B","N">>],
    [k |-> <<"N","i","c","a","r","a","g","u","a">>, v |-> <<"N","I","C">>],
    [k |-> <<"K","y","r","g","y","z","s","t","a","n">>, v |-> <<"K","G","Z">>],
    [k |-> <<"E","l"," ","S","a","l","v","a","d","o","r">>, v |-> <<"S","L","V">>],
    [k |-> <<"T","u","r","k","m","e","n","i","s","t","a","n">>, v |-> <<"T","K","M">>],
    [k |-> <<"S","i","n","g","a","p","o","r","e">>, v |-> <<"S","G","P">>],
    [k |-> <<"D","e","n","m","a","r","k">>, v |-> <<"D","N","K">>],
    [k |-> <<"F","i","n","l","a","n","d">>, v |-> <<"F","I","N">>],
    [k |-> <<"C","o","n","g","o">>, v |-> <<"C","O","G">>],
    [k |-> <<"S","l","o","v","a","k","i","a">>, v |-> <<"S","V","K">>],
    [k |-> <<"N","o","r","w","a","y">>, v |-> <<"N","O","R">>],
    [k |-> <<"O","m","a","n">>, v |-> <<"O","M","N">>],
    [k |-> <<"P","a","l","e","s","t","i","n","e">>, v |-> <<"P","S","E">>],
    [k |-> <<"C","o","s","t","a"," ","R","i","c","a">>, v |-> <<"C","R","I">>],
    [k |-> <<"L","i","b","e","r","i","a">>, v |-> <<"L","B","R">>],
    [k |-> <<"I","r","e","l","a","n","d">>, v |-> <<"I","R","L">>],
    [k |-> <<"C","e","n","t","r","a","l"," ","A","f","r","i","c","a","n"," ","R","e","p","u","b","l","i","c">>, v |-> <<"C","A","F">>],
    [k |-> <<"N","e","w"," ","Z","e","a","l","a","n","d">>, v |-> <<"N","Z","L">>],
    [k |-> <<"M","a","u","r","i","t","a","n","i","a">>, v |-> <<"M","R","T">>],
    [k |-> <<"P","a","n","a","m","a">>, v |-> <<"P","A","N">>],
    [k |-> <<"K","u","w","a","i","t">>, v |-> <<"K","W","T">>],
    [k |-> <<"C","r","o","a","t","i","a">>, v |-> <<"H","R","V">>],
    [k |-> <<"M","o","l","d","o","v","a">>, v |-> <<"M","D","A">>],
    [k |-> <<"G","e","o","r","g","i","a">>, v |-> <<"G","E","O">>],
    [k |-> <<"E","r","i","t","r","e","a">>, v |-> <<"E","R","I">>],
    [k |-> <<"U","r","u","g","u","a","y">>, v |-> <<"U","R","Y">>],
    [k |-> <<"B","o","s","n","i","a"," ","a","n","d"," ","H","e","r","z","e","g","o","v","i","n","a">>, v |-> <<"B","I","H">>],
    [k |-> <<"M","o","n","g","o","l","i","a">>, v |-> <<"M","N","G">>],
    [k |-> <<"A","r","m","e","n","i","a">>, v |-> <<"A","R","M">>],
    [k |-> <<"J","a","m","a","i","c","a">>, v |-> <<"J","A","M">>],
    [k |-> <<"Q","a","t","a","r">>, v |-> <<"Q","A","T">>],
    [k |-> <<"A","l","b","a","n","i","a">>, v |-> <<"A","L","B">>],
    [k |-> <<"P","u","e","r","t","o"," ","R","i","c","o">>, v |-> <<"P","R","I">>],
    [k |-> <<"L","i","t","h","u","a","n","i","a">>, v |-> <<"L","T","U">>],
    [k |-> <<"N","a","m","i","b","i","a">>, v |-> <<"N","A","M">>],
    [k |-> <<"G","a","m","b","i","a">>, v |-> <<"G","M","B">>],
    [k |-> <<"B","o","t","s","w","a","n","a">>, v |-> <<"B","W","A">>],
    [k |-> <<"G","a","b","o","n">>, v |-> <<"G","A","B">>],
    [k |-> <<"L","e","s","o","t","h","o">>, v |-> <<"L","S","O">>],
    [k |-> <<"N","o","r","t","h"," ","M","a","c","e","d","o","n","i","a">>, v |-> <<"M","K","D">>],
    [k |-> <<"S","l","o","v","e","n","i","a">>, v |-> <<"S","V","N">>],
    [k |-> <<"G","u","i","n","e","a","-","B","i","s","s","a","u">>, v |-> <<"G","N","B">>],
    [k |-> <<"L","a","t","v","i","a">>, v |-> <<"L","V","A">>],
    [k |-> <<"B","a","h","r","a","i","n">>, v |-> <<"B","H","R">>],
    [k |-> <<"E","q","u","a","t","o","r","i","a","l"," ","G","u","i","n","e","a">>, v |-> <<"G","N","Q">>],
    [k |-> <<"T","r","i","n","i","d","a","d"," ","a","n","d"," ","T","o","b","a","g","o">>, v |-> <<"T","T","O">>],
    [k |-> <<"E","s","t","o","n","i","a">>, v |-> <<"E","S","T">>],
    [k |-> <<"T","i","m","o","r","-","L","e","s","t","e">>, v |-> <<"T","L","S">>],
    [k |-> <<"M","a","u","r","i","t","i","u","s">>, v |-> <<"M","U","S">>],
    [k |-> <<"C","y","p","r","u","s">>, v |-> <<"C","Y","P">>],
    [k |-> <<"E","s","w","a","t","i","n","i">>, v |-> <<"S","W","Z">>],
    [k |-> <<"D","j","i","b","o","u","t","i">>, v |-> <<"D","J","I">>],
    [k |-> <<"F","i","j","i">>, v |-> <<"F","J","I">>],
    [k |-> <<"R","e","u","n","i","o","n">>, v |-> <<"R","E","U">>],
    [k |-> <<"C","o","m","o","r","o","s">>, v |-> <<"C","O","M">>],
    [k |-> <<"G","u","y","a","n","a">>, v |-> <<"G","U","Y">>],
    [k |-> <<"B","h","u","t","a","n">>, v |-> <<"B","T","N">>],
    [k |-> <<"S","o","l","o","m","o","n"," ","I","s","l","a","n","d","s">>, v |-> <<"S","L","B">>],
    [k |-> <<"M","o","n","t","e","n","e","g","r","o">>, v |-> <<"M","N","E">>],
    [k |-> <<"W","e","s","t","e","r","n"," ","S","a","h","a","r","a">>, v |-> <<"E","S","H">>],
    [k |-> <<"L","u","x","e","m","b","o","u","r","g">>, v |-> <<"L","U","X">>],
    [k |-> <<"S","u","r","i","n","a","m","e">>, v |-> <<"S","U","R">>],
    [k |-> <<"C","a","b","o"," ","V","e","r","d","e">>, v |-> <<"C","P","V">>],
    [k |-> <<"M","i","c","r","o","n","e","s","i","a">>, v |-> <<"F","S","M">>],
    [k |-> <<"M","a","l","d","i","v","e","s">>, v |-> <<"M","D","V">>],
    [k |-> <<"M","a","l","t","a">>, v |-> <<"M","L","T">>],
    [k |-> <<"B","r","u","n","e","i">>, v |-> <<"B","R","N">>],
    [k |-> <<"B","e","l","i","z","e">>, v |-> <<"B","L","Z">>],
    [k |-> <<"B","a","h","a","m","a","s">>, v |-> <<"B","H","S">>],
    [k |-> <<"I","c","e","l","a","n","d">>, v |-> <<"I","S","L">>],
    [k |-> <<"V","a","n","u","a","t","u">>, v |-> <<"V","U","T">>],
    [k |-> <<"B","a","r","b","a","d","o","s">>, v |-> <<"B","R","B">>],
    [k |-> <<"S","a","o"," ","T","o","m","e"," ","a","n","d"," ","P","r","i","n","c","i","p","e">>, v |-> <<"S","T","P">>],
    [k |-> <<"S","a","m","o","a">>, v |-> <<"W","S","M">>],
    [k |-> <<"S","a","i","n","t"," ","L","u","c","i","a">>, v |-> <<"L","C","A">>],
    [k |-> <<"K","i","r","i","b","a","t","i">>, v |-> <<"K","I","R">>],
    [k |-> <<"G","r","e","n","a","d","a">>, v |-> <<"G","R","D">>],
    [k |-> <<"S","a","i","n","t"," ","V","i","n","c","e","n","t"," ","a","n","d"," ","t","h","e"," ","G","r","e","n","a","d","i","n","e","s">>, v |-> <<"V","C","T">>],
    [k |-> <<"T","o","n","g","a">>, v |-> <<"T","O","N">>],
    [k |-> <<"S","e","y","c","h","e","l","l","e","s">>, v |-> <<"S","Y","C">>],
    [k |-> <<"A","n","t","i","g","u","a"," ","a","n","d"," ","B","a","r","b","u","d","a">>, v |-> <<"A","T","G">>],
    [k |-> <<"A","n","d","o","r","r","a">>, v |-> <<"A","N","D">>],
    [k |-> <<"D","o","m","i","n","i","c","a">>, v |-> <<"D","M","A">>],
    [k |-> <<"M","a","r","s","h","a","l","l"," ","I","s","l","a","n","d","s">>, v |-> <<"M","H","L">>],
    [k |-> <<"S","a","i","n","t"," ","K","i","t","t","s"," ","a","n","d"," ","N","e","v","i","s">>, v |-> <<"K","N","A">>],
    [k |-> <<"L","i","e","c","h","t","e","n","s","t","e","i","n">>, v |-> <<"L","I","E">>],
    [k |-> <<"M","o","n","a","c","o">>, v |-> <<"M","C","O">>],
    [k |-> <<"S","a","n"," ","M","a","r","i","n","o">>, v |-> <<"S","M","R">>],
    [k |-> <<"P","a","l","a","u">>, v |-> <<"P","L","W">>],
    [k |-> <<"T","u","v","a","l","u">>, v |-> <<"T","U","V">>],
    [k |-> <<"N","a","u","r","u">>, v |-> <<"N","R","U">>],
    [k |-> <<"H","o","l","y"," ","S","e","e">>, v |-> <<"V","A","T">>] >>

any_text(numeric_value) == numeric_value # <<>>

\* `numeric_value and str(numeric_value).strip() != '' and
\*  str(numeric_value).strip().lower() != 'nan'`
is_authentic(numeric_value) ==
    /\ numeric_value # <<>>
    /\ strip(numeric_value) # <<>>
    /\ lower(strip(numeric_value)) # <<"n","a","n">>

\* the body of `for row in csv_data`
fold_authentic(data, row) ==
    IF ~dict_has(country_mappings, row.Location) THEN data
    ELSE IF ~is_authentic(row.NumericValue) THEN data
    ELSE LET country_code == dict_get(country_mappings, row.Location)
             p            == float(row.NumericValue)
         IN  IF ~p.ok THEN data
             ELSE LET created == IF dict_has(data, country_code) THEN data
                                 ELSE dict_set(data, country_code, <<>>)
                  IN  dict_set(created, country_code,
                               dict_set(dict_get(created, country_code),
                                        row.IndicatorName, FloatOf(p)))

MaxAuthenticRows == 2

CHINA == <<"C","h","i","n","a">>
KOREA == <<"D","e","m","o","c","r","a","t","i","c"," ","P","e","o","p","l","e","'","s"," ","R","e","p","u","b","l","i","c"," ","o","f"," ","K","o","r","e","a">>
ATLANTIS == <<"A","t","l","a","n","t","i","s">>

\* rows of two mapped countries and of a Location the mapping does not have,
\* with values that are numbers, that are no data, and that are no number
AuthenticRows ==
    {Row(location, <<"X","X","X">>, indicator, <<"N","A">>, value) :
        location \in {CHINA, KOREA},
        indicator \in {LIFE, IndicatorNo(1)},
        value \in {<<>>, <<" ">>, <<"n","a","n">>, <<" ","N","a","N","\n">>, NO_DATA,
                   <<"2",".","5">>, <<"1">>}}
    \cup
    {Row(ATLANTIS, <<"X","X","X">>, LIFE, <<"N","A">>, value) : value \in {<<>>, <<"2",".","5">>}}

AuthenticInit ==
    /\ pc = "reading"
    /\ rows = <<>>
    /\ country_data = <<>>
    /\ indicator_candidates = <<>>
    /\ all_countries = <<>>
    /\ sanitized_countries = <<>>
    /\ final_data = <<>>
    /\ csv_data = <<>>
    /\ escaped_result = <<>>
    /\ sanitized_result = <<>>
    /\ NoText
    /\ NoMore

\* one turn of `for row in csv_data`
ReadAuthenticRow ==
    /\ pc = "reading"
    /\ Len(rows) < MaxAuthenticRows
    /\ \E row \in AuthenticRows :
           /\ rows' = Append(rows, row)
           /\ authentic_data' = fold_authentic(authentic_data, row)
    /\ UNCHANGED <<pc, country_data, indicator_candidates, all_countries, sanitized_countries,
                   final_data, csv_data, escaped_result, sanitized_result, textVars,
                   replacement_file, printed, sanitized_name, safe_countries,
                   additional_countries, complete_country_data, csv_available, csv_missing,
                   countries_data, country_scores>>

\* `return authentic_data`
ReturnAuthentic ==
    /\ pc = "reading"
    /\ pc' = "done"
    /\ UNCHANGED <<extractVars, textVars, moreVars>>

NextAuthentic == ReadAuthenticRow \/ ReturnAuthentic
SpecAuthentic == AuthenticInit /\ [][NextAuthentic]_vars

\* the value shows no data: empty, white space, nan in any case, or no number
shows_no_data(numeric_value) ==
    \/ strip(numeric_value) = <<>>
    \/ lower(strip(numeric_value)) = <<"n","a","n">>
    \/ ~float(numeric_value).ok

\* C17: in extract_authentic_csv_data a row whose NumericValue is empty, white
\* space, nan in any case or no number contributes nothing and creates no
\* country entry; every (country, indicator) pair of the output has the value
\* of a row of a mapped Location whose NumericValue is a number; no country of
\* the output is without an indicator.
C17_NoDataRowsContributeNothing ==
    /\ [][(rows' # rows /\ shows_no_data(rows'[Len(rows')].NumericValue))
              => authentic_data' = authentic_data]_vars
    /\ [](\A i \in 1..Len(authentic_data) :
              /\ authentic_data[i].v # <<>>
              /\ \A j \in 1..Len(authentic_data[i].v) :
                     \E n \in 1..Len(rows) :
                         /\ dict_has(country_mappings, rows[n].Location)
                         /\ dict_get(country_mappings, rows[n].Location) = authentic_data[i].k
                         /\ rows[n].IndicatorName = authentic_data[i].v[j].k
                         /\ float(rows[n].NumericValue).ok
                         /\ ~shows_no_data(rows[n].NumericValue)
                         /\ FloatOf(float(rows[n].NumericValue)) = authentic_data[i].v[j].v)

\* a row of China without data, then a row of Korea with a value: the output
\* has Korea alone
C17_Witness ==
    /\ pc = "done"
    /\ Len(rows) = 2
    /\ rows[1].Location = CHINA /\ rows[1].NumericValue = <<" ","N","a","N","\n">>
    /\ rows[2].Location = KOREA /\ rows[2].NumericValue = <<"2",".","5">>
    /\ dict_keys(authentic_data) = {<<"P","R","K">>}

-----------------------------------------------------------------------------
(* complete_csv_extraction.py: extract_complete_csv_data and generate_complete_authentic_replacement *)

\* code -> Location
country_mapping == <<
    [k |-> <<"U","S","A">>, v |-> <<"U","n","i","t","e","d"," ","S","t","a","t","e","s"," ","o","f"," ","A","m","e","r","i","c","a">>],
    [k |-> <<"C","H","N">>, v |-> <<"C","h","i","n","a">>],
    [k |-> <<"I","D","N">>, v |-> <<"I","n","d","o","n","e","s","i","a">>],
    [k |-> <<"T","U","R">>, v |-> <<"T","u","r","k","e","y">>],
    [k |-> <<"A","R","G">>, v |-> <<"A","r","g","e","n","t","i","n","a">>],
    [k |-> <<"B","R","A">>, v |-> <<"B","r","a","z","i","l">>],
    [k |-> <<"R","U","S">>, v |-> <<"R","u","s","s","i","a","n"," ","F","e","d","e","r","a","t","i","o","n">>],
    [k |-> <<"C","A","N">>, v |-> <<"C","a","n","a","d","a">>],
    [k |-> <<"A","U","S">>, v |-> <<"A","u","s","t","r","a","l","i","a">>],
    [k |-> <<"N","G","A">>, v |-> <<"N","i","g","e","r","i","a">>],
    [k |-> <<"E","T","H">>, v |-> <<"E","t","h","i","o","p","i","a">>],
    [k |-> <<"Z","A","F">>, v |-> <<"S","o","u","t","h"," ","A","f","r","i","c","a">>],
    [k |-> <<"K","E","N">>, v |-> <<"K","e","n","y","a">>],
    [k |-> <<"M","E","X">>, v |-> <<"M","e","x","i","c","o">>],
    [k |-> <<"I","R","N">>, v |-> <<"I","r","a","n"," ","(","I","s","l","a","m","i","c"," ","R","e","p","u","b","l","i","c"," ","o","f",")">>],
    [k |-> <<"D","E","U">>, v |-> <<"G","e","r","m","a","n","y">>],
    [k |-> <<"G","B","R">>, v |-> <<"U","n","i","t","e","d"," ","K","i","n","g","d","o","m"," ","o","f"," ","G","r","e","a","t"," ","B","r","i","t","a","i","n"," ","a","n","d"," ","N","o","r","t","h","e","r","n"," ","I","r","e","l","a","n","d">>],
    [k |-> <<"F","R","A">>, v |-> <<"F","r","a","n","c","e">>],
    [k |-> <<"I","T","A">>, v |-> <<"I","t","a","l","y">>] >>

\* `{v: k for k, v in country_mapping.items()}`
location_to_code ==
    for_each(LAMBDA d, n : dict_set(d, country_mapping[n].v, country_mapping[n].k),
             <<>>, 1, Len(country_mapping))

\* csv_available[code].add(indicator) on a defaultdict(set)
set_add(d, code, indicator) ==
    dict_set(d, code, (IF dict_has(d, code) THEN dict_get(d, code) ELSE {}) \cup {indicator})

\* the value is stored
is_available(row) == has_data(row.NumericValue) /\ float(row.NumericValue).ok

\* country_data after the body of `for row in reader`
fold_country(cd, row) ==
    IF ~dict_has(location_to_code, row.Location) THEN cd
    ELSE LET country_code == dict_get(location_to_code, row.Location)
             created == IF dict_has(cd, country_code) THEN cd
                        ELSE dict_set(cd, country_code, [name |-> row.Location, indicators |-> <<>>])
             country == dict_get(created, country_code)
         IN  IF is_available(row)
             THEN dict_set(created, country_code,
                           [country EXCEPT !.indicators =
                               dict_set(@, row.IndicatorName, FloatOf(float(row.NumericValue)))])
             ELSE created


\* csv_available after the body of `for row in reader`
fold_available(available, row) ==
    IF ~dict_has(location_to_code, row.Location) THEN available
    ELSE IF is_available(row)
    THEN set_add(available, dict_get(location_to_code, row.Location), row.IndicatorName)
    ELSE available

\* csv_missing after the body of `for row in reader`
fold_missing(missing, row) ==
    IF ~dict_has(location_to_code, row.Location) THEN missing
    ELSE IF is_available(row) THEN missing
    ELSE set_add(missing, dict_get(location_to_code, row.Location), row.IndicatorName)

\* `for indicator, value in data['indicators'].items()`
complete_lines(indicators) ==
    for_each(LAMBDA code, n :
                 code \o <<" "," "," "," "," "," "," "," ","'">> \o indicators[n].k \o <<"'", ":", " ">>
                      \o FloatRepr(indicators[n].v) \o <<",", "\n">>,
             <<>>, 1, Len(indicators))

any_country(data) == TRUE

\* `if data['indicators']`
has_indicators(data) == data.indicators # <<>>

\* replacement_code of generate_complete_authentic_replacement
complete_code(cd) ==
    for_each(LAMBDA code, n :
                 IF ~has_indicators(cd[n].v) THEN code
                 ELSE code \o <<" "," "," "," ","'">> \o cd[n].k \o <<"'",":"," ","{","\n">>
                      \o <<" "," "," "," "," "," ","n","a","m","e",":"," ","'">> \o cd[n].v.name \o <<"'", ",", "\n">>
                      \o <<" "," "," "," "," "," ","i","n","d","i","c","a","t","o","r","s",":"," ","{","\n">>
                      \o complete_lines(cd[n].v.indicators)
                      \o <<" "," "," "," "," "," ","}","\n">>
                      \o <<" "," "," "," ","}",",","\n">>,
             <<>>, 1, Len(cd))

\* the head and the tail of complete_authentic_csv_replacement.txt
COMPLETE_HEAD == <<"/","/"," ","C","O","M","P","L","E","T","E"," ","A","U","T","H","E","N","T","I","C"," ","W","H","O"," ","S","T","A","T","I","S","T","I","C","A","L"," ","A","N","N","E","X"," ","D","A","T","A","\n","/","/"," ","Z","e","r","o"," ","t","o","l","e","r","a","n","c","e"," ","-"," ","o","n","l","y"," ","e","x","a","c","t"," ","C","S","V"," ","v","a","l","u","e","s"," ","i","n","c","l","u","d","e","d","\n","\n","c","o","n","s","t"," ","a","u","t","h","e","n","t","i","c","W","H","O","D","a","t","a"," ","="," ","{","\n">>
COMPLETE_TAIL == <<"}",";","\n">>

MaxCompleteRows == 2

UNITED_KINGDOM == <<"U","n","i","t","e","d"," ","K","i","n","g","d","o","m"," ","o","f"," ","G","r","e","a","t"," ","B","r","i","t","a","i","n"," ","a","n","d"," ","N","o","r","t","h","e","r","n"," ","I","r","e","l","a","n","d">>
GBR == <<"G","B","R">>

\* rows of two target countries and of a country that is no target, with and
\* without a value; the LocationCode is not read
CompleteRows ==
    {Row(location, <<"X","X","X">>, indicator, <<"N","A">>, value) :
        location \in {KENYA, UNITED_KINGDOM},
        indicator \in {LIFE, <<"a","'","b">>},
        value \in {<<>>, NO_DATA, <<"a","b","c">>, <<"2",".","5">>, <<"1">>}}
    \cup
    {Row(TOGO, <<"X","X","X">>, LIFE, <<"N","A">>, value) : value \in {NO_DATA, <<"2",".","5">>}}

CompleteInit ==
    /\ pc = "reading"
    /\ rows = <<>>
    /\ country_data = <<>>
    /\ indicator_candidates = <<>>
    /\ all_countries = <<>>
    /\ sanitized_countries = <<>>
    /\ final_data = <<>>
    /\ csv_data = <<>>
    /\ escaped_result = <<>>
    /\ sanitized_result = <<>>
    /\ NoText
    /\ NoMore

\* one turn of `for row in reader`
ReadCompleteRow ==
    /\ pc = "reading"
    /\ Len(rows) < MaxCompleteRows
    /\ \E row \in CompleteRows :
           /\ rows' = Append(rows, row)
           /\ complete_country_data' = fold_country(complete_country_data, row)
           /\ csv_available' = fold_available(csv_available, row)
           /\ csv_missing' = fold_missing(csv_missing, row)
    /\ UNCHANGED <<pc, country_data, indicator_candidates, all_countries, sanitized_countries,
                   final_data, csv_data, escaped_result, sanitized_result, textVars,
                   replacement_file, printed, sanitized_name, safe_countries,
                   additional_countries, authentic_data, countries_data, country_scores>>

\* generate_complete_authentic_replacement after the extraction: nothing is
\* written when no row was of a target country (the report of the missing
\* indicators, a second file, is not part of the state)
GenerateComplete ==
    /\ pc = "reading"
    /\ pc' = "generated"
    /\ IF complete_country_data = <<>>
       THEN UNCHANGED <<replacement_code, replacement_file>>
       ELSE /\ replacement_code' = complete_code(complete_country_data)
            /\ replacement_file' = [exists |-> TRUE,
                                    text |-> COMPLETE_HEAD \o replacement_code' \o COMPLETE_TAIL]
    /\ UNCHANGED <<extractVars, raw_text, escaped, content, impl_data, results,
                   printed, sanitized_name, safe_countries, additional_countries,
                   authentic_data, complete_country_data, csv_available, csv_missing,
                   countries_data, country_scores>>

NextComplete == ReadCompleteRow \/ GenerateComplete
SpecComplete == CompleteInit /\ [][NextComplete]_vars

\* the line that opens the entry of a country in the generated text
entry_opening(code) == <<" "," "," "," ","'">> \o code \o <<"'",":"," ","{","\n">>

\* C18: generate_complete_authentic_replacement emits an entry exactly for the
\* countries with at least one stored indicator, each of them one of the 19
\* target countries, and for every country csv_available is the set of the
\* indicator names stored for it.
C18_OnlyCountriesWithData ==
    /\ \A i \in 1..Len(complete_country_data) :
           /\ dict_has(country_mapping, complete_country_data[i].k)
           /\ dict_keys(complete_country_data[i].v.indicators)
                  = (IF dict_has(csv_available, complete_country_data[i].k)
                     THEN dict_get(csv_available, complete_country_data[i].k) ELSE {})
    /\ dict_keys(csv_available) \subseteq dict_keys(complete_country_data)
    /\ pc = "generated" =>
           /\ \A i \in 1..Len(country_mapping) :
                  Contains(replacement_code, entry_opening(country_mapping[i].k))
                      <=> /\ dict_has(complete_country_data, country_mapping[i].k)
                          /\ dict_get(complete_country_data, country_mapping[i].k).indicators # <<>>
           /\ count_of(replacement_code, NAME_KEY)
                  = Cardinality({i \in 1..Len(complete_country_data) :
                                    complete_country_data[i].v.indicators # <<>>})
           /\ ~Contains(replacement_code, <<"i","n","d","i","c","a","t","o","r","s",":"," ","{","\n"," "," "," "," "," "," ","}">>)

\* Kenya has rows without a value only and the United Kingdom a value: the
\* text has the entry of the United Kingdom alone
C18_Witness ==
    /\ pc = "generated"
    /\ dict_keys(complete_country_data) = {KEN, GBR}
    /\ dict_get(complete_country_data, KEN).indicators = <<>>
    /\ ~dict_has(csv_available, KEN)
    /\ dict_get(csv_missing, KEN) = {LIFE}
    /\ dict_has(csv_available, GBR)
    /\ dict_get(csv_available, GBR) = {LIFE}
    /\ Contains(replacement_code, entry_opening(GBR))
    /\ ~Contains(replacement_code, entry_opening(KEN))
    /\ replacement_file.exists

-----------------------------------------------------------------------------
(* The priority of the disaggregations, on the rows of one pair *)

TOTAL == <<"T","O","T","A","L">>
ALL == <<"A","L","L">>
SA_TOTAL == <<"S","A","_","T","O","T","A","L">>

\* every entry of the priority list, a sex-specific value, and a value that is
\* no entry of the list and holds one
PriorityDisaggregations ==
    {<<"N","A">>, <<"B","T","S","X">>, <<"S","E","X","_","B","T","S","X">>, TOTAL, ALL, <<>>,
     SEX_MLE, SA_TOTAL}

\* rows of one pair with every disaggregation, a row of a second indicator and a
\* row without a value
PriorityRows ==
    {Row(KENYA, KEN, LIFE, d, <<"1">>) : d \in PriorityDisaggregations}
    \cup {Row(KENYA, KEN, LIFE, d, <<"2",".","5">>) : d \in {<<"N","A">>, ALL, SEX_MLE}}
    \cup {Row(KENYA, KEN, UHC, TOTAL, <<"1">>),
          Row(KENYA, KEN, LIFE, <<"N","A">>, NO_DATA)}

ReadPriorityRow ==
    /\ pc = "reading"
    /\ Len(rows) < MaxRows
    /\ \E row \in PriorityRows : ReadInto(row)

NextPriority == ReadPriorityRow \/ Finish

SpecPriority == ExtractInit /\ [][NextPriority]_vars

\* the aggregate markers of the priority list
AggregateMarkers ==
    {<<"N","A">>, <<"B","T","S","X">>, <<"S","E","X","_","B","T","S","X">>, TOTAL, ALL}

\* the rows read so far that contribute to the pair
pair_rows(code, indicator) ==
    {i \in 1..Len(rows) : /\ contributes(rows[i])
                          /\ rows[i].LocationCode = code
                          /\ rows[i].IndicatorName = indicator}

\* C19: a record whose Disaggregation is not exactly one of the aggregate
\* markers NA, BTSX, SEX_BTSX, TOTAL, ALL never outranks a record of the same
\* pair whose Disaggregation is exactly one of them: it is not the record kept
\* while such a record has been read, and its priority is strictly after that of
\* TOTAL.
C19_OtherNeverOutranksMarker ==
    \A c \in 1..Len(country_data) : \A n \in 1..Len(country_data[c].v) :
           country_data[c].v[n].v.disaggregation \notin AggregateMarkers =>
               /\ \A i \in pair_rows(country_data[c].k, country_data[c].v[n].k) :
                      rows[i].Disaggregation \notin AggregateMarkers
               /\ country_data[c].v[n].v.priority > priority_score(TOTAL)

\* what the score does establish: a record whose Disaggregation holds none of
\* the aggregate markers is never kept while a record with a marker has been read
C19_ValueWithoutMarkerNeverOutranks ==
    \A c \in 1..Len(country_data) : \A n \in 1..Len(country_data[c].v) :
        (\A m \in AggregateMarkers : ~Contains(country_data[c].v[n].v.disaggregation, m)) =>
            /\ \A i \in pair_rows(country_data[c].k, country_data[c].v[n].k) :
                   rows[i].Disaggregation \notin AggregateMarkers
            /\ country_data[c].v[n].v.priority > priority_score(ALL)

\* the entry stored for the pair, where there is one
stored_pairs(cd) ==
    UNION {{<<cd[c].k, cd[c].v[n].k>> : n \in 1..Len(cd[c].v)} : c \in 1..Len(cd)}

stored_entry(cd, pair) == dict_get(dict_get(cd, pair[1]), pair[2])

\* C20: while the rows are folded the score stored for a pair never increases,
\* the stored entry changes only when the row read has a strictly smaller score,
\* an entry with score 0 is never changed, and after every prefix of rows the
\* stored score is the least score of the contributing rows of the pair.
C20_StoredScoreOnlyDecreases ==
    /\ [](\A pair \in stored_pairs(country_data) :
              /\ pair_rows(pair[1], pair[2]) # {}
              /\ stored_entry(country_data, pair).priority
                     = SetMin({priority_score(rows[i].Disaggregation) :
                                  i \in pair_rows(pair[1], pair[2])}))
    /\ [](\A i \in 1..Len(rows) :
              contributes(rows[i]) =>
                  <<rows[i].LocationCode, rows[i].IndicatorName>> \in stored_pairs(country_data))
    /\ [][\A pair \in stored_pairs(country_data) :
              /\ pair \in stored_pairs(country_data')
              /\ stored_entry(country_data', pair).priority <= stored_entry(country_data, pair).priority
              /\ stored_entry(country_data', pair) # stored_entry(country_data, pair) =>
                     /\ rows' # rows
                     /\ <<rows'[Len(rows')].LocationCode, rows'[Len(rows')].IndicatorName>> = pair
                     /\ priority_score(rows'[Len(rows')].Disaggregation)
                            < stored_entry(country_data, pair).priority
                     /\ stored_entry(country_data', pair).priority
                            = priority_score(rows'[Len(rows')].Disaggregation)
              /\ stored_entry(country_data, pair).priority = 0 =>
                     stored_entry(country_data', pair) = stored_entry(country_data, pair)]_vars

\* the stored score of a pair went from 5 to 0, and a row of score 0 with
\* another value read after that changed nothing
C20_Witness ==
    /\ Len(rows) = 3
    /\ \A i \in 1..3 : rows[i].IndicatorName = LIFE
    /\ rows[1].Disaggregation = SEX_MLE
    /\ rows[2].Disaggregation = <<"N","A">> /\ rows[2].NumericValue = <<"1">>
    /\ rows[3].Disaggregation = <<"N","A">> /\ rows[3].NumericValue = <<"2",".","5">>
    /\ stored_entry(country_data, <<KEN, LIFE>>).priority = 0
    /\ stored_entry(country_data, <<KEN, LIFE>>).value = FloatOf(float(<<"1">>))

-----------------------------------------------------------------------------
(* Regenerate, then verify: implement_corrected_aggregates followed by *)
(* perform_system_wide_verification on the same CSV                    *)

\* `csv_countries - impl_countries`
missing_from_impl(csv, impl) == dict_keys(csv) \ dict_keys(impl)

\* `impl_countries - csv_countries`
extra_in_impl(csv, impl) == dict_keys(impl) \ dict_keys(csv)

\* perform_system_wide_verification on the component as the run before left it
VerifyImplemented ==
    /\ pc = "implemented"
    /\ country_data' = fold_rows(rows)
    /\ csv_data' = final_values(country_data', MIN_VERIFIED)
    /\ impl_data' = extract_all_implementation_data(content)
    /\ results' = verification(csv_data', impl_data')
    /\ pc' = "reverified"
    /\ UNCHANGED <<rows, indicator_candidates, all_countries, sanitized_countries, final_data,
                   escaped_result, sanitized_result, raw_text, escaped, replacement_code, content, moreVars>>

NextRegenerate == Implement \/ VerifyImplemented
SpecRegenerate == RoundTripInit /\ [][NextRegenerate]_vars

\* C21: after implement_corrected_aggregates has rewritten the countries block
\* from a CSV, perform_system_wide_verification against the same CSV finds no
\* country in the CSV but missing from the implementation, no country in the
\* implementation but not in the CSV, and no discrepancy.
C21_RegeneratedBlockVerifies ==
    (pc = "reverified" /\ block_written) =>
        /\ missing_from_impl(csv_data, impl_data) = {}
        /\ extra_in_impl(csv_data, impl_data) = {}
        /\ results.discrepancies = 0

\* the same, for a CSV in which every country with 10 indicators has 15, every
\* name is a plain text and every value is printed as a plain decimal; every
\* indicator is then verified as well
C21_PlainTablesVerify ==
    (/\ pc = "reverified"
     /\ block_written
     /\ dict_keys(csv_data) = dict_keys(final_data)
     /\ \A e \in SeqRange(final_data) :
            /\ plain_text(e.v.name)
            /\ \A ind \in SeqRange(e.v.indicators) : plain_text(ind.k) /\ plain_value(ind.v)) =>
        /\ missing_from_impl(csv_data, impl_data) = {}
        /\ extra_in_impl(csv_data, impl_data) = {}
        /\ results.discrepancies = 0
        /\ results.exact_matches = results.total_indicators
        /\ results.total_countries = Len(final_data)

\* no country is ever reported as in the implementation but not in the CSV
C21_NoExtraCountry ==
    (pc = "reverified" /\ block_written) => extra_in_impl(csv_data, impl_data) = {}

-----------------------------------------------------------------------------
(* A splice script run twice on the same CSV or replacement file *)

\* an indicator name that holds the line closing the countries object
CLOSING_NAME == <<"a">> \o BLOCK_CLOSE \o <<"b">>

\* the CSVs of one run, and one with an indicator of that name
RerunCsvs ==
    SpliceCsvs \cup {table_rows(KENYA, KEN, MIN_AGGREGATES - 1, CLOSING_NAME, ONE)}

\* a component with an object and a `// Calculate` comment before the data
EARLY == <<"c","o","n","s","t"," ","w"," ","="," ","{","\n","}",";","\n","/","/"," ","C","a","l","c","u","l","a","t","e"," ","w","\n">>

RerunComponents ==
    AuthenticComponents \cup {HEAD \o EARLY \o OLD_DATA \o <<"}", ";">> \o SCORES}

RerunInit ==
    /\ \/ /\ pc = "replace"
          /\ rows = <<>>
          /\ replacement_file \in ReplacementFiles
          /\ content \in SpliceComponents
       \/ /\ pc = "implement"
          /\ rows \in RerunCsvs
          /\ replacement_file = NO_FILE
          /\ content \in SpliceComponents
       \/ /\ pc = "write"
          /\ rows \in WriteCsvs
          /\ replacement_file = NO_FILE
          /\ content \in RerunComponents
    /\ country_data = <<>>
    /\ indicator_candidates = <<>>
    /\ all_countries = <<>>
    /\ sanitized_countries = <<>>
    /\ final_data = <<>>
    /\ csv_data = <<>>
    /\ escaped_result = <<>>
    /\ sanitized_result = <<>>
    /\ raw_text = <<>>
    /\ escaped = <<>>
    /\ replacement_code = <<>>
    /\ impl_data = <<>>
    /\ results = <<>>
    /\ printed = <<>>
    /\ sanitized_name = <<>>
    /\ safe_countries = <<>>
    /\ additional_countries = <<>>
    /\ authentic_data = <<>>
    /\ complete_country_data = <<>>
    /\ csv_available = <<>>
    /\ csv_missing = <<>>
    /\ countries_data = <<>>
    /\ country_scores = <<>>

\* perform_all_countries_replacement, run again
ReplaceAgain ==
    /\ pc = "replaced"
    /\ \E all_countries_data \in {read_all_countries_data(replacement_file)} :
           /\ content' = implemented(content, all_countries_data)
           /\ printed' = replacement_report(content, all_countries_data)
    /\ pc' = "replaced again"
    /\ UNCHANGED <<extractVars, raw_text, escaped, replacement_code, impl_data, results,
                   replacement_file, sanitized_name, safe_countries, additional_countries,
                   authentic_data, complete_country_data, csv_available, csv_missing,
                   countries_data, country_scores>>

\* implement_corrected_aggregates, run again
ImplementAgain ==
    /\ pc = "implemented"
    /\ country_data' = fold_rows(rows)
    /\ final_data' = final_values(country_data', MIN_AGGREGATES)
    /\ replacement_code' = generate_corrected_replacement(final_data')
    /\ content' = implemented(content, replacement_code')
    /\ printed' = implement_report(content, replacement_code')
    /\ pc' = "implemented again"
    /\ UNCHANGED <<rows, indicator_candidates, all_countries, sanitized_countries,
                   csv_data, escaped_result, sanitized_result, raw_text, escaped, impl_data, results,
                   replacement_file, sanitized_name, safe_countries, additional_countries,
                   authentic_data, complete_country_data, csv_available, csv_missing,
                   countries_data, country_scores>>

\* write_complete_replacement, run again
WriteAgain ==
    /\ pc = "written"
    /\ csv_data' = extract_csv_data(rows)
    /\ content' = complete_replacement(content, csv_data')
    /\ printed' = complete_report(content)
    /\ pc' = "written again"
    /\ UNCHANGED <<rows, country_data, indicator_candidates, all_countries, sanitized_countries,
                   final_data, escaped_result, sanitized_result, raw_text, escaped,
                   replacement_code, impl_data, results,
                   replacement_file, sanitized_name, safe_countries, additional_countries,
                   authentic_data, complete_country_data, csv_available, csv_missing,
                   countries_data, country_scores>>

NextRerun ==
    \/ PerformAllCountriesReplacement \/ Implement \/ WriteCompleteReplacement
    \/ ReplaceAgain \/ ImplementAgain \/ WriteAgain

SpecRerun == RerunInit /\ [][NextRerun]_vars

\* the first match of the countries pattern in the component is the block
\* made of the code
block_is(component, code) ==
    \E m \in {re_search(block_pattern, component)} :
        m.ok /\ group0(component, m) = BLOCK_OPEN \o <<"\n">> \o code \o BLOCK_CLOSE

\* the text between the two boundaries of the component is the data given
data_is(component, data) ==
    \E s \in {re_search(start_pattern, component)}, e \in {re_search(end_pattern, component)} :
        s.ok /\ e.ok /\ s.start <= e.start /\ SubSeq(component, s.start, e.start - 1) = data

\* the run before has spliced
has_spliced ==
    /\ pc \in {"replaced", "implemented", "written"}
    /\ printed[1] \in {REPLACED, IMPLEMENTED, COMPLETED}

\* what the run before wrote is what the patterns of the next run match
rematched ==
    /\ pc = "replaced" => block_is(content, read_all_countries_data(replacement_file))
    /\ pc = "implemented" => block_is(content, replacement_code)
    /\ pc = "written" => data_is(content, complete_data(csv_data))

\* C22: a second run of implement_corrected_aggregates, of
\* perform_all_countries_replacement or of write_complete_replacement with the
\* same CSV or replacement file leaves the component as the first run left it,
\* and what a run wrote is what the pattern of the next run matches.
C22_RerunLeavesComponent ==
    /\ [](has_spliced => rematched)
    /\ [][(pc \in {"replaced", "implemented", "written"}) => content' = content]_vars

\* what holds: a second run leaves the component as it is when the first run
\* did not splice, and when what it wrote is what the patterns match again
C22_RerunKeepsRematchedBlock ==
    [][(pc \in {"replaced", "implemented", "written"} /\ (has_spliced => rematched))
           => content' = content]_vars

\* a first run has spliced a block that the next run matches again
C22_Rematched ==
    /\ pc = "implemented again"
    /\ printed[1] = IMPLEMENTED
    /\ block_is(content, replacement_code)

-----------------------------------------------------------------------------
(* fix_country_names_in_file run twice *)

\* fix_country_names_in_file on the component as the run before left it
FixNamesAgain ==
    /\ pc = "fixed"
    /\ content' = fix_country_names(content)
    /\ pc' = "fixed again"
    /\ UNCHANGED <<extractVars, raw_text, escaped, replacement_code, impl_data, results, moreVars>>

NextFixTwice == FixNames \/ FixNamesAgain
SpecFixTwice == FixNamesInit /\ [][NextFixTwice]_vars

\* the number of quotes in the body of a name literal
quotes_in(body) == Cardinality({i \in 1..Len(body) : body[i] = "'"})

\* C23: fix_country_names_in_file run on a component it has already fixed
\* leaves the component unchanged; a name that holds an escaped quote is not
\* escaped again.
C23_SecondFixChangesNothing ==
    [][(pc = "fixed") => content' = content]_vars

\* what holds: the second run changes nothing when no name of the fixed
\* component has exactly one quote, escaped or not
C23_SecondFixKeepsNamesWithoutOneQuote ==
    [][(pc = "fixed" /\ \A body \in name_literals(content) : quotes_in(body) # 1)
           => content' = content]_vars

\* a fixed component with a name of two quotes and one without a quote, run again
C23_KeptNames ==
    /\ pc = "fixed again"
    /\ \E body \in name_literals(content) : quotes_in(body) = 2
    /\ \E body \in name_literals(content) : quotes_in(body) = 0
    /\ \A body \in name_literals(content) : quotes_in(body) # 1


-----------------------------------------------------------------------------
(* test_health_score_distribution.py: simulate_health_score_calculation *)

\* A float of the score calculation is kept as an exact quotient [n, d] in
\* lowest terms with d > 0: what the calculation divides by, which values are
\* equal and which is larger are the same as for the floats of the inputs
\* below; the rounding of the last digits is left out.
RECURSIVE GCD(_, _)
GCD(a, b) == IF b = 0 THEN a ELSE GCD(b, a % b)

Quotient(n, d) ==
    LET an == IF n < 0 THEN 0 - n ELSE n
        ad == IF d < 0 THEN 0 - d ELSE d
        g  == GCD(an, ad)
        q  == [n |-> an \div g, d |-> ad \div g]
    IN  IF (n < 0) # (d < 0) THEN [q EXCEPT !.n = 0 - q.n] ELSE q

Whole(n) == [n |-> n, d |-> 1]
q_add(a, b) == Quotient(a.n * b.d + b.n * a.d, a.d * b.d)
q_sub(a, b) == Quotient(a.n * b.d - b.n * a.d, a.d * b.d)
q_mul(a, b) == Quotient(a.n * b.n, a.d * b.d)
q_le(a, b) == a.n * b.d <= b.n * a.d
q_min(values) == CHOOSE x \in values : \A y \in values : q_le(x, y)
q_max(values) == CHOOSE x \in values : \A y \in values : q_le(y, x)

\* a / b: ok = FALSE is ZeroDivisionError
truediv(a, b) ==
    IF b.n = 0 THEN [ok |-> FALSE, q |-> Whole(0)]
    ELSE [ok |-> TRUE, q |-> Quotient(a.n * b.d, a.d * b.n)]

positive_keywords ==
    {<<"c","o","v","e","r","a","g","e">>,
     <<"a","c","c","e","s","s">>,
     <<"b","i","r","t","h","s">>,
     <<"s","k","i","l","l","e","d">>,
     <<"i","m","m","u","n","i","z","a","t","i","o","n">>,
     <<"e","x","p","e","c","t","a","n","c","y">>,
     <<"d","e","n","s","i","t","y">>}

negative_keywords ==
    {<<"m","o","r","t","a","l","i","t","y">>,
     <<"d","e","a","t","h">>,
     <<"d","i","s","e","a","s","e">>,
     <<"m","a","l","n","u","t","r","i","t","i","o","n">>,
     <<"i","n","c","i","d","e","n","c","e">>}

\* positive_keywords is looked at first; an indicator with no keyword is positive
is_positive_direction(indicator) ==
    \/ \E keyword \in positive_keywords : Contains(lower(indicator), keyword)
    \/ ~\E keyword \in negative_keywords : Contains(lower(indicator), keyword)

\* all_values is never empty here: it holds the value of the country itself
normalize_indicator(all_values, value, is_positive) ==
    LET min_val == q_min(all_values)
        max_val == q_max(all_values)
    IN  IF max_val = min_val THEN Quotient(1, 2)
        ELSE IF is_positive
        THEN truediv(q_sub(value, min_val), q_sub(max_val, min_val)).q
        ELSE truediv(q_sub(max_val, value), q_sub(max_val, min_val)).q

\* the indicators of all countries (a set turned into a list: the order of the
\* list is the order of the sum, which changes no quotient)
all_score_indicators(cd) == UNION {dict_keys(cd[i].v.indicators) : i \in 1..Len(cd)}

\* the countries whose value goes into all_values for the indicator
other_countries(cd, indicator) == {i \in 1..Len(cd) : dict_has(cd[i].v.indicators, indicator)}

\* the indicators counted in valid_indicators for a country
valid_indicators(cd, data) ==
    {indicator \in all_score_indicators(cd) :
         /\ dict_has(data.indicators, indicator)
         /\ Cardinality(other_countries(cd, indicator)) > 1}

RECURSIVE total_score(_, _, _, _)
\* total_score after the turns of `for indicator in all_indicators` for the indicators given
total_score(cd, data, weight, indicators) ==
    IF indicators = {} THEN Whole(0)
    ELSE LET indicator == CHOOSE x \in indicators : TRUE
             all_values == {dict_get(cd[i].v.indicators, indicator) : i \in other_countries(cd, indicator)}
             normalized_value == normalize_indicator(all_values,
                                                     dict_get(data.indicators, indicator),
                                                     is_positive_direction(indicator))
         IN  q_add(q_mul(normalized_value, weight),
                   total_score(cd, data, weight, indicators \ {indicator}))

observed_min == 25
observed_max == 66

\* max(0, min(100, ((raw_score - observed_min) / (observed_max - observed_min)) * 100))
calibrated(raw_score) ==
    LET score == q_mul(truediv(q_sub(raw_score, Whole(observed_min)),
                               Whole(observed_max - observed_min)).q, Whole(100))
        capped == IF q_le(Whole(100), score) THEN Whole(100) ELSE score
    IN  IF q_le(capped, Whole(0)) THEN Whole(0) ELSE capped

\* one turn of `for country_code, country_data in countries_data.items()`:
\* ok = FALSE is ZeroDivisionError, scored = FALSE is a country without a score
score_of(cd, data) ==
    LET weight == truediv(Whole(1), Whole(Cardinality(all_score_indicators(cd))))
        valid  == valid_indicators(cd, data)
        adjustment_factor == truediv(Whole(Cardinality(all_score_indicators(cd))), Whole(Cardinality(valid)))
        raw_score == q_mul(q_mul(total_score(cd, data, weight.q, valid), Whole(100)),
                           adjustment_factor.q)
    IN  IF ~weight.ok THEN [ok |-> FALSE, scored |-> FALSE]
        ELSE IF Cardinality(valid) > 0
        THEN IF ~adjustment_factor.ok THEN [ok |-> FALSE, scored |-> FALSE]
             ELSE [ok |-> TRUE, scored |-> TRUE,
                   entry |-> [name |-> data.name,
                              raw_score |-> raw_score,
                              calibrated_score |-> calibrated(raw_score),
                              valid_indicators |-> Cardinality(valid)]]
        ELSE [ok |-> TRUE, scored |-> FALSE]

RECURSIVE score_countries(_, _)
\* country_scores after the first n countries: [ok, scores]
score_countries(cd, n) ==
    IF n = 0 THEN [ok |-> TRUE, scores |-> <<>>]
    ELSE LET before == the({score_countries(cd, m) : m \in {n - 1}})
             score  == score_of(cd, cd[n].v)
         IN  IF ~before.ok THEN before
             ELSE IF ~score.ok THEN [ok |-> FALSE, scores |-> <<>>]
             ELSE IF score.scored
             THEN [ok |-> TRUE, scores |-> dict_set(before.scores, cd[n].k, score.entry)]
             ELSE before

simulate_health_score_calculation(cd) == score_countries(cd, Len(cd))

\* the most countries of an input
MaxCountries == 2

USA == <<"U","S","A">>
CHN == <<"C","H","N">>
NOR == <<"N","O","R">>
INFANT_MORTALITY == <<"I","n","f","a","n","t"," ","m","o","r","t","a","l","i","t","y">>

\* the indicators of an input country: 0 is an indicator the country has not
ScoreIndicators(life, infant) ==
    (IF life = 0 THEN <<>> ELSE <<[k |-> LIFE_EXPECTANCY, v |-> Whole(life)]>>)
    \o (IF infant = 0 THEN <<>> ELSE <<[k |-> INFANT_MORTALITY, v |-> Whole(infant)]>>)

ScoreCountries ==
    {[k |-> code, v |-> [name |-> code, indicators |-> ScoreIndicators(life, infant)]] :
        code \in {USA, CHN, NOR}, life \in 0..2, infant \in 0..2}

\* the mappings of at most MaxCountries countries, the empty mapping included
ScoreInputs ==
    UNION {{cd \in [1..n -> ScoreCountries] : \A i, j \in 1..n : i # j => cd[i].k # cd[j].k} :
               n \in 0..MaxCountries}

ScoreInit ==
    /\ pc = "simulate"
    /\ rows = <<>>
    /\ country_data = <<>>
    /\ indicator_candidates = <<>>
    /\ all_countries = <<>>
    /\ sanitized_countries = <<>>
    /\ final_data = <<>>
    /\ csv_data = <<>>
    /\ escaped_result = <<>>
    /\ sanitized_result = <<>>
    /\ NoText
    /\ replacement_file = NO_FILE
    /\ printed = <<>>
    /\ sanitized_name = <<>>
    /\ safe_countries = <<>>
    /\ additional_countries = <<>>
    /\ authentic_data = <<>>
    /\ complete_country_data = <<>>
    /\ csv_available = <<>>
    /\ csv_missing = <<>>
    /\ countries_data \in ScoreInputs
    /\ country_scores = <<>>

\* scores = simulate_health_score_calculation(countries_data)
Simulate ==
    /\ pc = "simulate"
    /\ LET result == simulate_health_score_calculation(countries_data)
       IN  /\ country_scores' = result.scores
           /\ pc' = IF result.ok THEN "returned" ELSE "ZeroDivisionError"
    /\ UNCHANGED <<extractVars, textVars, replacement_file, printed, sanitized_name,
                   safe_countries, additional_countries, authentic_data,
                   complete_country_data, csv_available, csv_missing, countries_data>>

NextScore == Simulate
SpecScore == ScoreInit /\ [][NextScore]_vars

\* C24: simulate_health_score_calculation returns a score map without raising
\* for every countries_data, the empty mapping and the countries with an empty
\* indicators mapping included: no division by zero in 1 / len(all_indicators)
\* or in the adjustment factor.
C24_NeverRaises == pc # "ZeroDivisionError"

\* C24, the part that holds: the call raises ZeroDivisionError exactly when
\* there is a country and no country has an indicator; the adjustment factor
\* never divides by zero.
C24_RaisesOnlyWithoutAnyIndicator ==
    /\ (pc = "ZeroDivisionError")
           => (countries_data # <<>> /\ all_score_indicators(countries_data) = {})
    /\ (pc = "returned")
           => (countries_data = <<>> \/ all_score_indicators(countries_data) # {})

\* C24, the part that holds: a call that returns yields a score exactly for the
\* countries with an indicator that another country has too, with the number
\* of these indicators.
C24_ScoresExactlyValidCountries ==
    (pc = "returned") =>
        /\ dict_keys(country_scores)
               = {countries_data[i].k : i \in {j \in 1..Len(countries_data) :
                      \E indicator \in dict_keys(countries_data[j].v.indicators) :
                          \E other \in 1..Len(countries_data) :
                              /\ other # j
                              /\ dict_has(countries_data[other].v.indicators, indicator)}}
        /\ \A i \in 1..Len(country_scores) :
               /\ country_scores[i].v.valid_indicators > 0
               /\ q_le(Whole(0), country_scores[i].v.calibrated_score)
               /\ q_le(country_scores[i].v.calibrated_score, Whole(100))

\* the call raised for one country without indicators
C24_Raised ==
    /\ pc = "ZeroDivisionError"
    /\ Len(countries_data) = 1
    /\ countries_data[1].v.indicators = <<>>

\* the call returned without a score: the only indicator has one value
C24_ReturnedWithoutScores ==
    /\ pc = "returned"
    /\ Len(countries_data) = 2
    /\ countries_data[1].v.indicators = <<>>
    /\ countries_data[2].v.indicators # <<>>
    /\ country_scores = <<>>

\* the call returned with the scores of two countries
C24_ReturnedScores ==
    /\ pc = "returned"
    /\ Len(country_scores) = 2
    /\ country_scores[1].v.calibrated_score = Whole(100)
    /\ country_scores[2].v.calibrated_score = Whole(0)
    /\ country_scores[1].v.valid_indicators = 2

====
